---- MODULE Spec2Model ----
(***************************************************************************)
(* Model of the file-backed key-value store of inc_mw_per (src/cpp/kvs.cpp *)
(* and src/cpp/kvs.hpp): the Adler-32 integrity layer, the JSON -> KvsValue *)
(* codec, Kvs::open / Kvs::open_json, and the public operations of an open  *)
(* Kvs handle, run against a small directory that a test harness prepares,  *)
(* corrupts and cleans (src/cpp/tests/test-kvs.cpp).                        *)
(*                                                                         *)
(* Representation notes.                                                   *)
(*  - A file's content is [exists |-> FALSE] or [exists |-> TRUE, bytes].   *)
(*  - A uint32_t is kept as its two 16-bit halves [hi, lo], because TLC's    *)
(*    integers are narrower than 2^32; a shift or an or on a uint32_t is    *)
(*    written on the halves.                                                *)
(*  - A path is the sequence of the string pieces the code concatenates.    *)
(*  - The JSON text parser is a collaborator outside the repository; it is  *)
(*    modelled on the texts of JsonTexts (and the empty buffer) only.       *)
(***************************************************************************)
EXTENDS Integers, Sequences, FiniteSets, TLC

(* ------------------------------ bounds -------------------------------- *)

\* How many times the harness changes the directory after its preparation.
MaxEnvSteps == 2

(* --------------------------- result values ---------------------------- *)

Ok(v) == [ok |-> TRUE, value |-> v]

MakeUnexpected(code) == [ok |-> FALSE, err |-> code]

MyErrorCode ==
    <<"UnmappedError", "FileNotFound", "KvsFileReadError", "KvsHashFileReadError",
      "JsonParserError", "JsonGeneratorError", "PhysicalStorageFailure",
      "IntegrityCorrupted", "ValidationFailed", "EncryptionFailed", "ResourceBusy",
      "OutOfStorageSpace", "QuotaExceeded", "AuthenticationFailed", "KeyNotFound",
      "SerializationFailed", "InvalidSnapshotId", "ConversionFailed",
      "MutexLockFailed">>

KVS_MAX_SNAPSHOTS == 3

(* --------------------------- integrity layer -------------------------- *)

mod == 65521

RECURSIVE BitOr(_, _)
BitOr(x, y) ==
    IF x = 0 THEN y
    ELSE IF y = 0 THEN x
    ELSE (IF x % 2 = 1 \/ y % 2 = 1 THEN 1 ELSE 0) + 2 * BitOr(x \div 2, y \div 2)

\* (hi16 << 16) | low, as a uint32_t: bits of hi16 above 2^16 are shifted out.
Shl16Or(hi16, low) ==
    [hi |-> BitOr(hi16 % 65536, low \div 65536), lo |-> low % 65536]

RECURSIVE adler32_loop(_, _, _, _)
adler32_loop(data, i, a, b) ==
    IF i > Len(data) THEN [a |-> a, b |-> b]
    ELSE LET a2 == (a + data[i]) % mod
             b2 == (b + a2) % mod
         IN  adler32_loop(data, i + 1, a2, b2)

\* a faulty checksum: the two accumulators in each other's place
adler32_swapped(data) ==
    LET s == adler32_loop(data, 1, 1, 0)
    IN  Shl16Or(s.a, s.b)

adler32(data) ==
    LET s == adler32_loop(data, 1, 1, 0)
    IN  Shl16Or(s.b, s.a)

\* The four bytes of a checksum, most significant first.
get_hash_bytes_adler32(hash) ==
    <<hash.hi \div 256, hash.hi % 256, hash.lo \div 256, hash.lo % 256>>

get_hash_bytes(data) == get_hash_bytes_adler32(adler32(data))

\* (buf[0] << 24) | (buf[1] << 16) | (buf[2] << 8) | buf[3]
DecodeBe32(buf) ==
    [hi |-> BitOr(buf[1] * 256, buf[2]), lo |-> BitOr(buf[3] * 256, buf[4])]

(* ------------------------------ JSON texts ---------------------------- *)

\* { "default": 1 }
default_json == <<123, 32, 34, 100, 101, 102, 97, 117, 108, 116, 34, 58, 32, 49, 32, 125>>

\* { "kvs": 2 }
kvs_json == <<123, 32, 34, 107, 118, 115, 34, 58, 32, 50, 32, 125>>

\* { "kvs":      (a truncated file: not a JSON text)
broken_json == <<123, 32, 34, 107, 118, 115, 34, 58>>

\* [ 2 ]         (a JSON text whose root is no object)
list_json == <<91, 32, 50, 32, 93>>

JsonTexts == {default_json, kvs_json, broken_json, list_json}

\* {"a":1,"b":@}   (stands for a file that the parser maps to an object with
\* a member of an extension type)
extension_json == <<123, 34, 97, 34, 58, 49, 44, 34, 98, 34, 58, 64, 125>>

\* { "": 1 }     (a JSON object with an empty member name)
empty_key_json == <<123, 32, 34, 34, 58, 32, 49, 32, 125>>

JsonNull == [t |-> "Null"]

JsonBool(x) == [t |-> "Bool", b |-> x]

JsonNumber(x) == [t |-> "Number", num |-> x]

JsonString(x) == [t |-> "String", str |-> x]

JsonList(xs) == [t |-> "List", items |-> xs]

\* members: a sequence of <<key, any>> pairs, in iteration order, keys unique
JsonObject(ms) == [t |-> "Object", members |-> ms]

\* a node none of the As<> calls of any_to_kvsvalue accepts
JsonUnsupported == [t |-> "Unsupported"]

\* The parse of a buffer: a JSON tree, or an error when the buffer is no JSON
\* text (the empty buffer and the truncated text are none).
FromBuffer(data) ==
    CASE data = default_json -> Ok(JsonObject(<< <<"default", JsonNumber(1)>> >>))
      [] data = kvs_json     -> Ok(JsonObject(<< <<"kvs", JsonNumber(2)>> >>))
      [] data = list_json    -> Ok(JsonList(<<JsonNumber(2)>>))
      [] data = empty_key_json -> Ok(JsonObject(<< <<"", JsonNumber(1)>> >>))
      [] data = extension_json ->
            Ok(JsonObject(<< <<"a", JsonNumber(1)>>, <<"b", JsonUnsupported>> >>))
      [] OTHER               -> MakeUnexpected("kInvalidFilePath")

(* ------------------------------ JSON codec ---------------------------- *)

KvsNull == [type |-> "Null"]

KvsBoolean(x) == [type |-> "Boolean", boolean |-> x]

KvsNumber(x) == [type |-> "Number", number |-> x]

KvsString(x) == [type |-> "String", string |-> x]

KvsArray(xs) == [type |-> "Array", array |-> xs]

KvsObject(m) == [type |-> "Object", object |-> m]

EmptyMap == [k \in {} |-> KvsNull]

\* unordered_map::emplace: an existing key keeps its value
emplace(m, k, v) ==
    IF k \in DOMAIN m THEN m
    ELSE [x \in (DOMAIN m) \cup {k} |-> IF x = k THEN v ELSE m[x]]

RECURSIVE any_to_kvsvalue(_), convert_list(_, _, _), convert_members(_, _, _)
any_to_kvsvalue(any) ==
    CASE any.t = "Null"   -> Ok(KvsNull)
      [] any.t = "Bool"   -> Ok(KvsBoolean(any.b))
      [] any.t = "Number" -> Ok(KvsNumber(any.num))
      [] any.t = "String" -> Ok(KvsString(any.str))
      [] any.t = "List"   ->
            LET r == convert_list(any.items, 1, <<>>)
            IN  IF r.ok THEN Ok(KvsArray(r.value))
                ELSE MakeUnexpected("ConversionFailed")
      [] any.t = "Object" ->
            LET r == convert_members(any.members, 1, EmptyMap)
            IN  IF r.ok THEN Ok(KvsObject(r.value))
                ELSE MakeUnexpected("ConversionFailed")
      [] OTHER            -> MakeUnexpected("ConversionFailed")

\* a faulty loop over a list's elements: each one is put in front
RECURSIVE convert_list_prepends(_, _, _)
convert_list_prepends(items, i, arr) ==
    IF i > Len(items) THEN Ok(arr)
    ELSE LET conv == any_to_kvsvalue(items[i])
         IN  IF ~conv.ok THEN conv
             ELSE convert_list_prepends(items, i + 1, <<conv.value>> \o arr)

\* the loop over a list's elements, left at the first failing element
convert_list(items, i, arr) ==
    IF i > Len(items) THEN Ok(arr)
    ELSE LET conv == any_to_kvsvalue(items[i])
         IN  IF ~conv.ok THEN conv
             ELSE convert_list(items, i + 1, Append(arr, conv.value))

\* a faulty loop over an object's members: a failing member is left out
RECURSIVE convert_members_skips(_, _, _)
convert_members_skips(ms, i, obj) ==
    IF i > Len(ms) THEN Ok(obj)
    ELSE LET conv == any_to_kvsvalue(ms[i][2])
         IN  IF ~conv.ok THEN convert_members_skips(ms, i + 1, obj)
             ELSE convert_members_skips(ms, i + 1, emplace(obj, ms[i][1], conv.value))

\* the loop over an object's members, left at the first failing member
convert_members(ms, i, obj) ==
    IF i > Len(ms) THEN Ok(obj)
    ELSE LET conv == any_to_kvsvalue(ms[i][2])
         IN  IF ~conv.ok THEN conv
             ELSE convert_members(ms, i + 1, emplace(obj, ms[i][1], conv.value))

(* ------------------------------ file system --------------------------- *)

Absent == [exists |-> FALSE]

File(bs) == [exists |-> TRUE, bytes |-> bs]

\* ifstream(path): a path the directory does not hold cannot be opened
ReadFile(fs, path) == IF path \in DOMAIN fs THEN fs[path] ELSE Absent

to_string(id) == CASE id = 5 -> "5" [] id = 123 -> "123"

NoDir == "nullopt"

DirPrefix(dir) == IF dir # NoDir THEN <<dir, "/">> ELSE <<>>

FilenamePrefix(id, dir) == DirPrefix(dir) \o <<"kvs_", to_string(id)>>

FilenameDefault(id, dir) == DirPrefix(dir) \o <<"kvs_", to_string(id), "_default">>

FilenameKvs(id, dir) == FilenamePrefix(id, dir) \o <<"_0">>

(* ------------------------------ open_json ----------------------------- *)

\* uint8_t buf[4] after hin.read(buf, 4): the bytes the file holds, and what
\* the array held before (stack) where the file ends early
ReadBuf(hin, stack) ==
    [i \in 1..4 |-> IF i <= Len(hin.bytes) THEN hin.bytes[i] ELSE stack[i]]

\* a faulty conversion of the root: a root that is no object is refused
ConvertRoot_refuses(root) ==
    IF root.t = "Object" THEN convert_members(root.members, 1, EmptyMap)
    ELSE MakeUnexpected("JsonParserError")

\* The map built from the parsed root: every member converted, the loop left
\* at the first failing member; a root that is no object gives the empty map.
ConvertRoot(root) ==
    IF root.t = "Object" THEN convert_members(root.members, 1, EmptyMap)
    ELSE Ok(EmptyMap)

\* a faulty parse step: a member that does not convert ends the loop, and the
\* load goes on with the empty map
ParseJsonData_swallows(data) ==
    LET any_res == FromBuffer(data)
    IN  IF ~any_res.ok THEN MakeUnexpected("JsonParserError")
        ELSE LET conv == ConvertRoot(any_res.value)
             IN  IF ~conv.ok THEN Ok(EmptyMap) ELSE Ok(conv.value)

\* Parse JSON Data (runs whenever the error flag is not set)
ParseJsonData(data) ==
    LET any_res == FromBuffer(data)
    IN  IF ~any_res.ok THEN MakeUnexpected("JsonParserError")
        ELSE LET conv == ConvertRoot(any_res.value)
             IN  IF ~conv.ok THEN MakeUnexpected(conv.err) ELSE Ok(conv.value)

\* [result, reads]: the Result of open_json and the files it tried to open
open_json(fs, prefix, need_file, verify_hash, stack) ==
    LET json_file == prefix \o <<".json">>
        hash_file == prefix \o <<".hash">>
        in        == ReadFile(fs, json_file)
        data      == IF in.exists THEN in.bytes ELSE <<>>
        \* Read JSON file
        error1    == ~in.exists /\ need_file = "Required"
        \* Verify JSON Hash
        hin       == ReadFile(fs, hash_file)
        file_hash == DecodeBe32(ReadBuf(hin, stack))
        calc_hash == adler32(data)
    IN  IF error1
        THEN [result |-> MakeUnexpected("KvsFileReadError"), reads |-> <<json_file>>]
        ELSE IF verify_hash = "Yes"
        THEN IF ~hin.exists
             THEN [result |-> MakeUnexpected("KvsHashFileReadError"),
                   reads  |-> <<json_file, hash_file>>]
             ELSE IF file_hash # calc_hash
             THEN [result |-> MakeUnexpected("ValidationFailed"),
                   reads  |-> <<json_file, hash_file>>]
             ELSE [result |-> ParseJsonData(data), reads |-> <<json_file, hash_file>>]
        ELSE [result |-> ParseJsonData(data), reads |-> <<json_file>>]

(* ------------------------------ Kvs::open ----------------------------- *)

NeedFile(need) == IF need = "Required" THEN "Required" ELSE "Optional"

\* a faulty NewStore: the flag is left cleared
NewStore_flag_cleared(kvs, default_values, filename_prefix) ==
    [kvs |-> kvs, default_values |-> default_values,
     filename_prefix |-> filename_prefix, flush_on_exit |-> FALSE]

\* the Kvs that open hands out
NewStore(kvs, default_values, filename_prefix) ==
    [kvs |-> kvs, default_values |-> default_values,
     filename_prefix |-> filename_prefix, flush_on_exit |-> TRUE]

\* a faulty Kvs::open: the default pass verifies the checksum file too
Kvs_open_default_verified(fs, instance_id, need_defaults, need_kvs, dir, stack) ==
    LET default_res == open_json(fs, FilenameDefault(instance_id, dir),
                                 NeedFile(need_defaults), "Yes", stack)
    IN  IF ~default_res.result.ok
        THEN [result |-> MakeUnexpected(default_res.result.err), reads |-> default_res.reads]
        ELSE LET kvs_res == open_json(fs, FilenameKvs(instance_id, dir),
                                      NeedFile(need_kvs), "Yes", stack)
                 reads   == default_res.reads \o kvs_res.reads
             IN  IF ~kvs_res.result.ok
                 THEN [result |-> MakeUnexpected(kvs_res.result.err), reads |-> reads]
                 ELSE [result |-> Ok(NewStore(kvs_res.result.value,
                                              default_res.result.value,
                                              FilenamePrefix(instance_id, dir))),
                       reads  |-> reads]

\* a faulty Kvs::open: the current-snapshot pass runs whatever the default pass
\* returned, and its error is the one reported
Kvs_open_both_passes(fs, instance_id, need_defaults, need_kvs, dir, stack) ==
    LET default_res == open_json(fs, FilenameDefault(instance_id, dir),
                                 NeedFile(need_defaults), "No", stack)
        kvs_res     == open_json(fs, FilenameKvs(instance_id, dir),
                                 NeedFile(need_kvs), "Yes", stack)
        reads       == default_res.reads \o kvs_res.reads
    IN  IF ~kvs_res.result.ok
        THEN [result |-> MakeUnexpected(kvs_res.result.err), reads |-> reads]
        ELSE IF ~default_res.result.ok
        THEN [result |-> MakeUnexpected(default_res.result.err), reads |-> reads]
        ELSE [result |-> Ok(NewStore(kvs_res.result.value, default_res.result.value,
                                     FilenamePrefix(instance_id, dir))),
              reads  |-> reads]

\* [result, reads]: the Result<Kvs> of Kvs::open and the files it tried to open
Kvs_open(fs, instance_id, need_defaults, need_kvs, dir, stack) ==
    LET filename_default == FilenameDefault(instance_id, dir)
        filename_prefix  == FilenamePrefix(instance_id, dir)
        filename_kvs     == FilenameKvs(instance_id, dir)
        default_res == open_json(fs, filename_default, NeedFile(need_defaults), "No", stack)
    IN  IF ~default_res.result.ok
        THEN [result |-> MakeUnexpected(default_res.result.err), reads |-> default_res.reads]
        ELSE LET kvs_res == open_json(fs, filename_kvs, NeedFile(need_kvs), "Yes", stack)
                 reads   == default_res.reads \o kvs_res.reads
             IN  IF ~kvs_res.result.ok
                 THEN [result |-> MakeUnexpected(kvs_res.result.err), reads |-> reads]
                 ELSE [result |-> Ok(NewStore(kvs_res.result.value,
                                              default_res.result.value,
                                              filename_prefix)),
                       reads  |-> reads]

(* ------------------------------ the state ----------------------------- *)

VARIABLES
    files,      \* the directory: path -> file content
    envSteps,   \* changes the harness made to the directory since Init
    call,       \* the arguments of the Kvs::open call whose Result is `result`
    result,     \* the Result<Kvs> the caller holds
    reads,      \* the files that call tried to open, in order
    ret,        \* the last call on the open Kvs and what it returned
    pc,         \* each thread's position: the call on the Kvs it is inside of
    kvs_mutex,  \* the thread that holds kvs_mutex of the Kvs
    objs,       \* the Kvs objects of a caller that moves them: name -> object
    builder     \* the KvsBuilder of a caller that opens through one

vars == <<files, envSteps, call, result, reads, ret, pc, kvs_mutex, objs, builder>>

\* what the callers that use the Kvs from one thread leave alone
threadVars == <<pc, kvs_mutex>>

Threads == {"t1", "t2"}

NoThread == "none"

\* a thread that is inside no call
Idle == [op |-> "idle", arg |-> <<>>]

\* the named Kvs objects of the move test
Handles == {"kvs_a", "kvs_b", "kvs_c"}

\* a name whose object is not constructed, or is destroyed
NoObject == [alive |-> FALSE]

\* no KvsBuilder is constructed
NoBuilder == [made |-> FALSE]

InstanceIds == {5, 123}

Needs == {"Optional", "Required"}

Keys == {"kvs", "default"}

SnapshotIds == {0, 1}

\* where the harness keeps its files: data_dir and instance of the tests
TestDir == "./data_folder/my_process"

TestInstance == 123

Dirs == {NoDir, TestDir}

default_prefix == FilenameDefault(TestInstance, TestDir)

kvs_prefix == FilenameKvs(TestInstance, TestDir)

JsonPath(prefix) == prefix \o <<".json">>

HashPath(prefix) == prefix \o <<".hash">>

Prefixes == {default_prefix, kvs_prefix}

Paths == {JsonPath(p) : p \in Prefixes} \cup {HashPath(p) : p \in Prefixes}

\* cleanup_environment(): nothing is there
EmptyDir == [p \in Paths |-> Absent]

\* prepare_enviromnnt(): both JSON files, each with its checksum file
PreparedDir ==
    [p \in Paths |->
        CASE p = JsonPath(default_prefix) -> File(default_json)
          [] p = HashPath(default_prefix) -> File(get_hash_bytes(default_json))
          [] p = JsonPath(kvs_prefix)     -> File(kvs_json)
          [] p = HashPath(kvs_prefix)     -> File(get_hash_bytes(kvs_json))]

\* what buf[4] of open_json may hold before the read: anything; the model
\* takes an all-zero array and the array that happens to equal the checksum
UninitBufs(data) == {<<0, 0, 0, 0>>, get_hash_bytes(data)}

NoCall == [made |-> FALSE]

NoResult == [ok |-> FALSE, err |-> "NoResult"]

NoRet == [op |-> "none", arg |-> <<>>, res |-> [ok |-> TRUE, value |-> "none"]]

HasStore == result.ok

Init ==
    /\ files \in {EmptyDir, PreparedDir}
    /\ envSteps = 0
    /\ call = NoCall
    /\ result = NoResult
    /\ reads = <<>>
    /\ ret = NoRet
    /\ pc = [t \in Threads |-> Idle]
    /\ kvs_mutex = NoThread
    /\ objs = [h \in Handles |-> NoObject]
    /\ builder = NoBuilder

(* --------------------------- the test harness ------------------------- *)

\* a change of the directory; the harness holds no open Kvs while it does it
EnvChange(fs) ==
    /\ ~HasStore
    /\ envSteps < MaxEnvSteps
    /\ fs # files
    /\ files' = fs
    /\ envSteps' = envSteps + 1
    /\ call' = NoCall
    /\ result' = NoResult
    /\ reads' = <<>>
    /\ ret' = NoRet
    /\ UNCHANGED <<threadVars, objs, builder>>

\* std::ofstream(prefix + ".json") << text
WriteJson ==
    \E p \in Prefixes, text \in JsonTexts :
        EnvChange([files EXCEPT ![JsonPath(p)] = File(text)])

\* the four put() calls that store the checksum of the JSON file as it is now
WriteHash ==
    \E p \in Prefixes :
        /\ files[JsonPath(p)].exists
        /\ EnvChange([files EXCEPT ![HashPath(p)] =
                                File(get_hash_bytes(files[JsonPath(p)].bytes))])

\* seekp(0); put(0xFF)
CorruptHash ==
    \E p \in Prefixes :
        /\ files[HashPath(p)].exists
        /\ Len(files[HashPath(p)].bytes) >= 1
        /\ EnvChange([files EXCEPT ![HashPath(p)] =
                                File([files[HashPath(p)].bytes EXCEPT ![1] = 255])])

\* a checksum file cut to its first two bytes
TruncateHash ==
    \E p \in Prefixes :
        /\ files[HashPath(p)].exists
        /\ Len(files[HashPath(p)].bytes) > 2
        /\ EnvChange([files EXCEPT ![HashPath(p)] =
                                File(SubSeq(files[HashPath(p)].bytes, 1, 2))])

\* rm -rf path
RemoveFile ==
    \E path \in Paths :
        /\ files[path].exists
        /\ EnvChange([files EXCEPT ![path] = Absent])

(* ------------------------------ operations ---------------------------- *)

\* the buffer contents that open_json of the current snapshot can observe
StacksFor(fs, instance_id, dir) ==
    LET hin  == ReadFile(fs, HashPath(FilenameKvs(instance_id, dir)))
        in   == ReadFile(fs, JsonPath(FilenameKvs(instance_id, dir)))
        data == IF in.exists THEN in.bytes ELSE <<>>
    IN  IF hin.exists /\ Len(hin.bytes) < 4 THEN UninitBufs(data) ELSE {<<0, 0, 0, 0>>}

\* result = Kvs::open(instance_id, need_defaults, need_kvs, dir)
Open ==
    \E instance_id \in InstanceIds, need_defaults \in Needs, need_kvs \in Needs,
       dir \in Dirs :
        \E stack \in StacksFor(files, instance_id, dir) :
            LET r == Kvs_open(files, instance_id, need_defaults, need_kvs, dir, stack)
            IN  /\ call' = [made |-> TRUE, instance_id |-> instance_id,
                            need_defaults |-> need_defaults, need_kvs |-> need_kvs,
                            dir |-> dir, stack |-> stack]
                /\ result' = r.result
                /\ reads' = r.reads
                /\ ret' = NoRet
                /\ UNCHANGED <<files, envSteps>>
                /\ UNCHANGED <<threadVars, objs, builder>>

\* a call on the open Kvs that leaves the Kvs and the directory as they are
Returns(op, arg, res) ==
    /\ HasStore
    /\ ret' = [op |-> op, arg |-> arg, res |-> res]
    /\ UNCHANGED <<files, envSteps, call, result, reads>>
    /\ UNCHANGED <<threadVars, objs, builder>>

set_flush_on_exit ==
    \E flush \in BOOLEAN :
        /\ HasStore
        /\ result' = [result EXCEPT !.value.flush_on_exit = flush]
        /\ ret' = [op |-> "set_flush_on_exit", arg |-> <<flush>>, res |-> Ok("void")]
        /\ UNCHANGED <<files, envSteps, call, reads>>
        /\ UNCHANGED <<threadVars, objs, builder>>

reset == Returns("reset", <<>>, MakeUnexpected("UnmappedError"))

get_all_keys == Returns("get_all_keys", <<>>, MakeUnexpected("UnmappedError"))

key_exists == \E key \in Keys : Returns("key_exists", <<key>>, MakeUnexpected("UnmappedError"))

get_value == \E key \in Keys : Returns("get_value", <<key>>, MakeUnexpected("UnmappedError"))

\* what get_default_value(key) returns on a Kvs: the Kvs is not looked at
Kvs_get_default_value(store, key) == MakeUnexpected("UnmappedError")

get_default_value ==
    \E key \in Keys :
        Returns("get_default_value", <<key>>, Kvs_get_default_value(result.value, key))

is_value_default ==
    \E key \in Keys : Returns("is_value_default", <<key>>, MakeUnexpected("UnmappedError"))

\* a faulty set_value: the pair is stored, and in the default map
set_value_writes_default ==
    \E key \in Keys, value \in {KvsNumber(42)} :
        /\ HasStore
        /\ result' = [result EXCEPT !.value.default_values =
                          [k \in (DOMAIN @) \cup {key} |-> IF k = key THEN value ELSE @[k]]]
        /\ ret' = [op |-> "set_value", arg |-> <<key, value>>, res |-> Ok(TRUE)]
        /\ UNCHANGED <<files, envSteps, call, reads>>
        /\ UNCHANGED <<threadVars, objs, builder>>

set_value ==
    \E key \in Keys, value \in {KvsNumber(42)} :
        Returns("set_value", <<key, value>>, MakeUnexpected("UnmappedError"))

remove_key == \E key \in Keys : Returns("remove_key", <<key>>, MakeUnexpected("UnmappedError"))

flush == Returns("flush", <<>>, MakeUnexpected("UnmappedError"))

\* what snapshot_count() returns for a Kvs of this prefix over this directory:
\* neither is looked at
Kvs_snapshot_count(fs, filename_prefix) == 0

snapshot_count ==
    Returns("snapshot_count", <<>>,
            Ok(Kvs_snapshot_count(files, result.value.filename_prefix)))

max_snapshot_count == Returns("max_snapshot_count", <<>>, Ok(0))

snapshot_restore ==
    \E snapshot_id \in SnapshotIds :
        Returns("snapshot_restore", <<snapshot_id>>, MakeUnexpected("UnmappedError"))

get_kvs_filename ==
    \E snapshot_id \in SnapshotIds :
        Returns("get_kvs_filename", <<snapshot_id>>, MakeUnexpected("UnmappedError"))

get_kvs_hash_filename ==
    \E snapshot_id \in SnapshotIds :
        Returns("get_kvs_hash_filename", <<snapshot_id>>, MakeUnexpected("UnmappedError"))

\* the Result (and the Kvs in it) goes out of scope: ~Kvs() = default
Destroy ==
    /\ call.made
    /\ call' = NoCall
    /\ result' = NoResult
    /\ reads' = <<>>
    /\ ret' = NoRet
    /\ UNCHANGED <<files, envSteps>>
    /\ UNCHANGED <<threadVars, objs, builder>>

Next ==
    \/ WriteJson
    \/ WriteHash
    \/ CorruptHash
    \/ TruncateHash
    \/ RemoveFile
    \/ Open
    \/ set_flush_on_exit
    \/ reset
    \/ get_all_keys
    \/ key_exists
    \/ get_value
    \/ get_default_value
    \/ is_value_default
    \/ set_value
    \/ remove_key
    \/ flush
    \/ snapshot_count
    \/ max_snapshot_count
    \/ snapshot_restore
    \/ get_kvs_filename
    \/ get_kvs_hash_filename
    \/ Destroy

Spec == Init /\ [][Next]_vars

(* ---------------------- vocabulary of the properties ------------------- *)

\* result is what the call returned: nothing was done to the Kvs since
JustOpened == call.made /\ ret = NoRet

\* the files the call looks at
CallDefaultJson == ReadFile(files, JsonPath(FilenameDefault(call.instance_id, call.dir)))

CallDefaultHash == ReadFile(files, HashPath(FilenameDefault(call.instance_id, call.dir)))

CallKvsJson == ReadFile(files, JsonPath(FilenameKvs(call.instance_id, call.dir)))

CallKvsHash == ReadFile(files, HashPath(FilenameKvs(call.instance_id, call.dir)))

\* a checksum file of four bytes that are the checksum of the JSON file
Matches(hash, json) ==
    /\ hash.exists
    /\ json.exists
    /\ Len(hash.bytes) = 4
    /\ DecodeBe32(hash.bytes) = adler32(json.bytes)

\* a checksum file of four bytes that are not the checksum of the JSON file
Mismatches(hash, json) ==
    /\ hash.exists
    /\ json.exists
    /\ Len(hash.bytes) = 4
    /\ DecodeBe32(hash.bytes) # adler32(json.bytes)

IsJsonText(json) == json.exists /\ FromBuffer(json.bytes).ok

IsJsonObject(json) == IsJsonText(json) /\ FromBuffer(json.bytes).value.t = "Object"

\* the current snapshot pair is there and valid
KvsPairValid == IsJsonText(CallKvsJson) /\ Matches(CallKvsHash, CallKvsJson)

\* the default pass has nothing to fail on: the file is a JSON text, or it is
\* missing and only Optional
DefaultPassClean ==
    \/ IsJsonText(CallDefaultJson)
    \/ ~CallDefaultJson.exists /\ call.need_defaults = "Optional"

\* the directory with one more (or one replaced) file
WithFile(fs, path, content) ==
    [p \in (DOMAIN fs) \cup {path} |-> IF p = path THEN content ELSE fs[p]]

(* ------------------------------- claims ------------------------------- *)

\* C1: with the default file unreadable and the current snapshot pair present
\* and valid, open with need_defaults=Required fails with KvsFileReadError and
\* open with need_defaults=Optional succeeds with an empty default map.
C1_MissingDefault ==
    (JustOpened /\ ~CallDefaultJson.exists /\ KvsPairValid) =>
        /\ call.need_defaults = "Required" =>
                result = MakeUnexpected("KvsFileReadError")
        /\ call.need_defaults = "Optional" =>
                (result.ok /\ result.value.default_values = EmptyMap)

\* C2: with neither kvs_<id>_0.json nor kvs_<id>_0.hash there (and a default
\* file that loads), open with need_kvs=Optional succeeds with an empty current
\* map and open with need_kvs=Required fails with KvsFileReadError.
C2_MissingKvs ==
    (JustOpened /\ ~CallKvsJson.exists /\ ~CallKvsHash.exists
                /\ IsJsonText(CallDefaultJson)) =>
        /\ call.need_kvs = "Optional" => (result.ok /\ result.value.kvs = EmptyMap)
        /\ call.need_kvs = "Required" => result = MakeUnexpected("KvsFileReadError")

\* C3: with kvs_<id>_0.json present and kvs_<id>_0.hash unreadable (and a
\* default pass that has nothing to fail on), open fails with
\* KvsHashFileReadError, for need_kvs=Required and need_kvs=Optional alike.
C3_MissingHash ==
    (JustOpened /\ CallKvsJson.exists /\ ~CallKvsHash.exists /\ DefaultPassClean) =>
        result = MakeUnexpected("KvsHashFileReadError")

\* C4: for the current snapshot pair (and a default pass that has nothing to
\* fail on) the hash verification passes exactly if the four stored bytes,
\* decoded big-endian, equal the checksum of the JSON file's bytes; on a
\* mismatch open fails with ValidationFailed, for either need_kvs, and returns
\* no Kvs.
C4_HashVerification ==
    (JustOpened /\ DefaultPassClean) =>
        /\ Mismatches(CallKvsHash, CallKvsJson) =>
                result = MakeUnexpected("ValidationFailed")
        /\ Matches(CallKvsHash, CallKvsJson) =>
                (result.ok \/ result.err \notin {"ValidationFailed", "KvsHashFileReadError"})

\* the default checksum file as it may be: missing, matching, corrupted, cut
DefaultHashVariants ==
    LET data == IF CallDefaultJson.exists THEN CallDefaultJson.bytes ELSE <<>>
        good == get_hash_bytes(data)
    IN  {Absent, File(good), File([good EXCEPT ![1] = 255]), File(SubSeq(good, 1, 2))}

C6_DefaultHashChecked ==
    (JustOpened /\ IsJsonText(CallDefaultJson) /\ KvsPairValid) =>
        /\ Mismatches(CallDefaultHash, CallDefaultJson) =>
                result = MakeUnexpected("ValidationFailed")
        /\ ~CallDefaultHash.exists =>
                result = MakeUnexpected("KvsHashFileReadError")

\* all three files there, both JSON files objects, the checksum matching
AllFilesValid ==
    /\ IsJsonObject(CallDefaultJson)
    /\ IsJsonObject(CallKvsJson)
    /\ Matches(CallKvsHash, CallKvsJson)

\* C7: when the default JSON file, kvs_<id>_0.json and a matching
\* kvs_<id>_0.hash exist and hold JSON objects, open succeeds for each of the
\* four combinations of need_defaults and need_kvs, and the Kvs it returns has
\* flush_on_exit = true.
C7_OpenNormal ==
    (JustOpened /\ AllFilesValid) =>
        /\ result.ok
        /\ result.value.flush_on_exit = TRUE
        /\ \A nd \in Needs, nk \in Needs :
              LET r == Kvs_open(files, call.instance_id, nd, nk, call.dir, call.stack).result
              IN  r.ok /\ r.value.flush_on_exit = TRUE

\* C7's case: the open with both policies Optional, all files valid
C7_Witness ==
    /\ JustOpened
    /\ AllFilesValid
    /\ call.need_defaults = "Optional"
    /\ call.need_kvs = "Optional"
    /\ result.ok

\* the map a JSON file converts to
ConvertedMap(json) == ParseJsonData(json.bytes).value

\* C8: after a successful open, get_value(k) returns the converted value of k
\* for every key k of the object in kvs_<id>_0.json, and get_default_value(d)
\* the converted value of d for every key d of the object in the default file.
C8_GetAfterOpen ==
    HasStore =>
        /\ (ret.op = "get_value" /\ IsJsonObject(CallKvsJson)
                /\ ret.arg[1] \in DOMAIN ConvertedMap(CallKvsJson)) =>
              ret.res = Ok(ConvertedMap(CallKvsJson)[ret.arg[1]])
        /\ (ret.op = "get_default_value" /\ IsJsonObject(CallDefaultJson)
                /\ ret.arg[1] \in DOMAIN ConvertedMap(CallDefaultJson)) =>
              ret.res = Ok(ConvertedMap(CallDefaultJson)[ret.arg[1]])

\* C9: no public operation returns UnmappedError: not open, and not reset,
\* get_all_keys, key_exists, get_value, get_default_value, is_value_default,
\* set_value, remove_key, flush, snapshot_restore, get_kvs_filename or
\* get_kvs_hash_filename.
C9_NeverUnmapped ==
    /\ result.ok \/ result.err # "UnmappedError"
    /\ ret.res.ok \/ ret.res.err # "UnmappedError"

\* what the default pass of the call returns
CallDefaultPass ==
    open_json(files, FilenameDefault(call.instance_id, call.dir),
              NeedFile(call.need_defaults), "No", call.stack).result

\* what the current-snapshot pass of the call returns, were it run
CallKvsPass ==
    open_json(files, FilenameKvs(call.instance_id, call.dir),
              NeedFile(call.need_kvs), "Yes", call.stack).result

\* the two files of the current snapshot pair of the call
CallKvsPaths ==
    {JsonPath(FilenameKvs(call.instance_id, call.dir)),
     HashPath(FilenameKvs(call.instance_id, call.dir))}

\* C10: open is fail-fast and all-or-nothing: when the default pass fails, open
\* returns that pass's error and opens neither file of the current snapshot
\* pair (a missing Required default file beside a corrupted checksum gives
\* KvsFileReadError, not ValidationFailed); when either pass fails, open
\* returns an error and no Kvs.
C10_FailFast ==
    call.made =>
        /\ ~CallDefaultPass.ok =>
              /\ result = MakeUnexpected(CallDefaultPass.err)
              /\ \A i \in 1..Len(reads) : reads[i] \notin CallKvsPaths
        /\ (~CallDefaultJson.exists /\ call.need_defaults = "Required") =>
              result = MakeUnexpected("KvsFileReadError")
        /\ (~CallDefaultPass.ok \/ ~CallKvsPass.ok) =>
              (~result.ok /\ DOMAIN result = {"ok", "err"})

\* C10's case: the Required default file missing, the checksum corrupted
C10_Witness ==
    /\ call.made
    /\ ~CallDefaultJson.exists
    /\ call.need_defaults = "Required"
    /\ Mismatches(CallKvsHash, CallKvsJson)
    /\ result = MakeUnexpected("KvsFileReadError")

(* ----------------------- snapshots and destruction --------------------- *)

\* the name of a generation's file pair without its extension: P_n
SnapshotName(prefix, n) ==
    prefix \o << CASE n = 0 -> "_0" [] n = 1 -> "_1" [] n = 2 -> "_2" [] n = 3 -> "_3" >>

\* the prefix P of the Kvs the call opened
CallPrefix == FilenamePrefix(call.instance_id, call.dir)

\* this step destroys an open Kvs
DestroysStore == Destroy /\ HasStore

\* C11: destroying a Kvs whose flush_on_exit flag is set performs a flush, so
\* with kvs_<id>_0.json there before the destruction kvs_<id>_1.json is there
\* after it; destroying a Kvs whose flag is cleared changes no file.
C11_FlushOnExit ==
    [][DestroysStore =>
          /\ (result.value.flush_on_exit /\ CallKvsJson.exists) =>
                ReadFile(files', JsonPath(SnapshotName(CallPrefix, 1))).exists
          /\ ~result.value.flush_on_exit => files' = files]_vars

Min(a, b) == IF a <= b THEN a ELSE b

\* this step is a flush: the explicit call, or the destruction of a Kvs whose
\* flush_on_exit flag is set
FlushStep == flush \/ (HasStore /\ result.value.flush_on_exit /\ Destroy)

\* C12: every flush, explicit or at destruction with flush_on_exit set, takes
\* the value snapshot_count() returns for the instance from c to
\* min(c + 1, KVS_MAX_SNAPSHOTS).
C12_FlushCounts ==
    [][FlushStep =>
          Kvs_snapshot_count(files', CallPrefix)
            = Min(Kvs_snapshot_count(files, CallPrefix) + 1, KVS_MAX_SNAPSHOTS)]_vars

\* C13: on an open Kvs max_snapshot_count() returns KVS_MAX_SNAPSHOTS (3), and
\* snapshot_count() returns no more than that.
C13_MaxSnapshotCount ==
    HasStore =>
        /\ ret.op = "max_snapshot_count" => ret.res = Ok(KVS_MAX_SNAPSHOTS)
        /\ ret.op = "snapshot_count" => ret.res.value <= KVS_MAX_SNAPSHOTS

\* the json+hash pair of generation n of the call's instance in a directory
SnapshotPair(fs, n) ==
    [json |-> ReadFile(fs, JsonPath(SnapshotName(CallPrefix, n))),
     hash |-> ReadFile(fs, HashPath(SnapshotName(CallPrefix, n)))]

\* C14: a flush rotates the generations: for every generation k there before
\* the flush with k + 1 <= KVS_MAX_SNAPSHOTS - 1, the json+hash pair of
\* generation k + 1 after the flush is the pair of generation k before it.
C14_FlushRotates ==
    [][flush =>
          \A k \in 0..(KVS_MAX_SNAPSHOTS - 2) :
              SnapshotPair(files, k).json.exists =>
                  SnapshotPair(files', k + 1) = SnapshotPair(files, k)]_vars

\* what a following Kvs::open of the same instance with need_kvs=Required
\* returns, for each content the checksum buffer may have
Reopened ==
    {Kvs_open(files, call.instance_id, call.need_defaults, "Required", call.dir,
              stack).result :
        stack \in StacksFor(files, call.instance_id, call.dir)}

C16_SnapshotRestore ==
    (HasStore /\ ret.op = "snapshot_restore") =>
        LET pair == SnapshotPair(files, ret.arg[1])
        IN  /\ ~pair.json.exists => ret.res = MakeUnexpected("InvalidSnapshotId")
            /\ (IsJsonObject(pair.json) /\ Matches(pair.hash, pair.json)) =>
                  /\ ret.res.ok
                  /\ result.value.kvs = ConvertedMap(pair.json)

\* C17: on an open Kvs of filename prefix P, get_kvs_filename(n) returns
\* P_n.json and get_kvs_hash_filename(n) returns P_n.hash, whether or not the
\* files are there.
C17_Filenames ==
    HasStore =>
        /\ ret.op = "get_kvs_filename" =>
              ret.res = Ok(JsonPath(SnapshotName(result.value.filename_prefix, ret.arg[1])))
        /\ ret.op = "get_kvs_hash_filename" =>
              ret.res = Ok(HashPath(SnapshotName(result.value.filename_prefix, ret.arg[1])))

\* this step is a call of the same key as the call before it
SameKey == ret'.arg[1] = ret.arg[1]

AsOpened ==
    Kvs_open(files, call.instance_id, call.need_defaults, call.need_kvs, call.dir,
             call.stack).result.value

\* C19: the default map of an open Kvs is the map open loaded, whatever
\* set_value, remove_key, flush, snapshot_restore and reset calls were made
\* since, and get_default_value(k) returns what it returns immediately after
\* open.
C19_DefaultsFixed ==
    HasStore =>
        /\ result.value.default_values = AsOpened.default_values
        /\ ret.op = "get_default_value" =>
              ret.res = Kvs_get_default_value(AsOpened, ret.arg[1])

\* C19's case: a Kvs with a default map that is not empty, after a set_value
C19_Witness ==
    /\ HasStore
    /\ ret.op = "set_value"
    /\ AsOpened.default_values # EmptyMap
    /\ result.value.default_values = AsOpened.default_values

(* ------------------------ threads on one open Kvs ---------------------- *)

\* a Kvs opened over the prepared directory, shared by the threads
InitThreads ==
    LET r == Kvs_open(PreparedDir, TestInstance, "Optional", "Optional", TestDir,
                      <<0, 0, 0, 0>>)
    IN  /\ files = PreparedDir
        /\ envSteps = 0
        /\ call = [made |-> TRUE, instance_id |-> TestInstance,
                   need_defaults |-> "Optional", need_kvs |-> "Optional",
                   dir |-> TestDir, stack |-> <<0, 0, 0, 0>>]
        /\ result = r.result
        /\ reads = r.reads
        /\ ret = NoRet
        /\ pc = [t \in Threads |-> Idle]
        /\ kvs_mutex = NoThread
        /\ objs = [h \in Handles |-> NoObject]
        /\ builder = NoBuilder

\* thread t enters the body of an operation: no body takes kvs_mutex
Enter(t, op, arg) ==
    /\ HasStore
    /\ pc[t].op = "idle"
    /\ pc' = [pc EXCEPT ![t] = [op |-> op, arg |-> arg]]
    /\ UNCHANGED <<files, envSteps, call, result, reads, ret, kvs_mutex, objs, builder>>

Enter_reset(t) == Enter(t, "reset", <<>>)

Enter_get_all_keys(t) == Enter(t, "get_all_keys", <<>>)

Enter_key_exists(t) == \E key \in Keys : Enter(t, "key_exists", <<key>>)

Enter_get_value(t) == \E key \in Keys : Enter(t, "get_value", <<key>>)

Enter_get_default_value(t) == \E key \in Keys : Enter(t, "get_default_value", <<key>>)

Enter_is_value_default(t) == \E key \in Keys : Enter(t, "is_value_default", <<key>>)

Enter_set_value(t) ==
    \E key \in Keys, value \in {KvsNumber(42)} : Enter(t, "set_value", <<key, value>>)

Enter_remove_key(t) == \E key \in Keys : Enter(t, "remove_key", <<key>>)

Enter_flush(t) == Enter(t, "flush", <<>>)

Enter_snapshot_restore(t) ==
    \E snapshot_id \in SnapshotIds : Enter(t, "snapshot_restore", <<snapshot_id>>)

\* thread t reaches the return statement of the body it is in; the body never
\* held kvs_mutex, so there is nothing to release
Return(t) ==
    /\ pc[t].op # "idle"
    /\ ret' = [op |-> pc[t].op, arg |-> pc[t].arg,
               res |-> MakeUnexpected("UnmappedError")]
    /\ pc' = [pc EXCEPT ![t] = Idle]
    /\ UNCHANGED <<files, envSteps, call, result, reads, kvs_mutex, objs, builder>>

ThreadNext ==
    \E t \in Threads :
        \/ Enter_reset(t)
        \/ Enter_get_all_keys(t)
        \/ Enter_key_exists(t)
        \/ Enter_get_value(t)
        \/ Enter_get_default_value(t)
        \/ Enter_is_value_default(t)
        \/ Enter_set_value(t)
        \/ Enter_remove_key(t)
        \/ Enter_flush(t)
        \/ Enter_snapshot_restore(t)
        \/ Return(t)

SpecThreads == InitThreads /\ [][ThreadNext]_vars

instance_b == 5

\* the directory prepared for two instances, each with data of its own: the
\* files of prepare_enviromnnt() for the first, and the two JSON texts the
\* other way round for the second
TwoInstancesDir ==
    LET d == FilenameDefault(instance_b, TestDir)
        k == FilenameKvs(instance_b, TestDir)
        f1 == WithFile(PreparedDir, JsonPath(d), File(kvs_json))
        f2 == WithFile(f1, JsonPath(k), File(default_json))
    IN  WithFile(f2, HashPath(k), File(get_hash_bytes(default_json)))

\* a constructed Kvs object: the four members that make its state
KvsObject_of(store) ==
    [alive |-> TRUE, kvs |-> store.kvs, default_values |-> store.default_values,
     filename_prefix |-> store.filename_prefix, flush_on_exit |-> store.flush_on_exit]

\* what std::move leaves behind in a map and in a string: nothing
MovedFromMap == EmptyMap

MovedFromString == <<>>

\* a faulty move constructor: other keeps what it had
Kvs_move_ctor_copies(other) ==
    [this |-> KvsObject_of(other), other |-> other]

\* Kvs::Kvs(Kvs&& other): [this, other] after the construction; the flag of
\* other is loaded, not cleared
Kvs_move_ctor(other) ==
    [this  |-> [alive |-> TRUE,
                kvs |-> other.kvs,
                default_values |-> other.default_values,
                filename_prefix |-> other.filename_prefix,
                flush_on_exit |-> other.flush_on_exit],
     other |-> [other EXCEPT !.kvs = MovedFromMap,
                             !.default_values = MovedFromMap,
                             !.filename_prefix = MovedFromString]]

\* a faulty move assignment: the flag of the target is left as it was
Kvs_move_assign_keeps_flag(this, other, same) ==
    IF same THEN [this |-> this, other |-> this]
    ELSE [this  |-> [Kvs_move_ctor(other).this EXCEPT !.flush_on_exit = this.flush_on_exit],
          other |-> Kvs_move_ctor(other).other]

\* a faulty move assignment: no check for this == &other, so the maps are
\* cleared and then moved from themselves
Kvs_move_assign_no_self_check(this, other, same) ==
    IF same
    THEN [this  |-> [this EXCEPT !.kvs = MovedFromMap, !.default_values = MovedFromMap],
          other |-> [this EXCEPT !.kvs = MovedFromMap, !.default_values = MovedFromMap]]
    ELSE Kvs_move_ctor(other)

\* Kvs::operator=(Kvs&& other): [this, other] after the assignment; same says
\* that this == &other
Kvs_move_assign(this, other, same) ==
    IF same THEN [this |-> this, other |-> this]
    ELSE LET cleared == [this EXCEPT !.kvs = EmptyMap, !.default_values = EmptyMap]
             moved   == [cleared EXCEPT !.filename_prefix = other.filename_prefix,
                                        !.flush_on_exit = other.flush_on_exit]
         IN  [this  |-> [moved EXCEPT !.kvs = other.kvs,
                                      !.default_values = other.default_values],
              other |-> [other EXCEPT !.kvs = MovedFromMap,
                                      !.default_values = MovedFromMap,
                                      !.filename_prefix = MovedFromString]]

InitMove ==
    /\ files = TwoInstancesDir
    /\ envSteps = 0
    /\ call = NoCall
    /\ result = NoResult
    /\ reads = <<>>
    /\ ret = NoRet
    /\ pc = [t \in Threads |-> Idle]
    /\ kvs_mutex = NoThread
    /\ objs = [h \in Handles |-> NoObject]
    /\ builder = NoBuilder

\* a step of the caller that owns the objects: the call, what it returned, and
\* the objects as they were before it
Moves(op, arg, res, after) ==
    /\ objs' = after
    /\ ret' = [op |-> op, arg |-> arg, res |-> res, before |-> objs]
    /\ UNCHANGED <<files, envSteps, call, result, reads, pc, kvs_mutex, builder>>

\* auto result = Kvs::open(...); Kvs h = std::move(result.value());
OpenObject(h) ==
    \E instance_id \in InstanceIds, need_defaults \in Needs, need_kvs \in Needs :
        LET r == Kvs_open(files, instance_id, need_defaults, need_kvs, TestDir,
                          <<0, 0, 0, 0>>).result
        IN  /\ ~objs[h].alive
            /\ r.ok
            /\ Moves("open", <<h>>, Ok("void"),
                     [objs EXCEPT ![h] = Kvs_move_ctor(KvsObject_of(r.value)).this])

\* Kvs dst(std::move(src));
MoveConstruct(dst, src) ==
    /\ dst # src
    /\ ~objs[dst].alive
    /\ objs[src].alive
    /\ LET m == Kvs_move_ctor(objs[src])
       IN  Moves("move_ctor", <<dst, src>>, Ok("void"),
                 [objs EXCEPT ![dst] = m.this, ![src] = m.other])

\* dst = std::move(src);
MoveAssign(dst, src) ==
    /\ objs[dst].alive
    /\ objs[src].alive
    /\ LET m == Kvs_move_assign(objs[dst], objs[src], dst = src)
       IN  Moves("move_assign", <<dst, src>>, Ok("void"),
                 IF dst = src THEN [objs EXCEPT ![dst] = m.this]
                 ELSE [objs EXCEPT ![dst] = m.this, ![src] = m.other])

\* h.set_flush_on_exit(flag);
SetFlushOnExit(h) ==
    \E flag \in BOOLEAN :
        /\ objs[h].alive
        /\ Moves("set_flush_on_exit", <<h, flag>>, Ok("void"),
                 [objs EXCEPT ![h].flush_on_exit = flag])

\* h.flush();
FlushObject(h) ==
    /\ objs[h].alive
    /\ Moves("flush", <<h>>, MakeUnexpected("UnmappedError"), objs)

\* h goes out of scope: ~Kvs() = default
DestroyObject(h) ==
    /\ objs[h].alive
    /\ Moves("~Kvs", <<h>>, Ok("void"), [objs EXCEPT ![h] = NoObject])

\* cleanup_environment(): the harness removes every file; the objects stay
CleanupEnvironment ==
    /\ files # EmptyDir
    /\ files' = EmptyDir
    /\ UNCHANGED <<envSteps, call, result, reads, ret, pc, kvs_mutex, objs, builder>>

MoveNext ==
    \E dst \in Handles, src \in Handles :
        \/ CleanupEnvironment
        \/ OpenObject(dst)
        \/ MoveConstruct(dst, src)
        \/ MoveAssign(dst, src)
        \/ SetFlushOnExit(dst)
        \/ FlushObject(dst)
        \/ DestroyObject(dst)

SpecMove == InitMove /\ [][MoveNext]_vars

\* the last step was this call on these names
LastMove(op, dst, src) == ret.op = op /\ ret.arg = <<dst, src>>

\* an object that carries data: maps that are not empty and a prefix
HoldsData(obj) ==
    /\ obj.alive
    /\ obj.kvs # EmptyMap
    /\ obj.default_values # EmptyMap
    /\ obj.filename_prefix # <<>>

HasSnapshot(fs, obj, n) ==
    ReadFile(fs, JsonPath(SnapshotName(obj.filename_prefix, n))).exists

\* this step assigns one object to another one
MoveAssignsOther(dst, src) == dst # src /\ MoveAssign(dst, src)

C23_AssignThenFlush ==
    [][\A dst \in Handles, src \in Handles :
          /\ MoveAssignsOther(dst, src) =>
                /\ files' = files
                /\ objs'[dst].filename_prefix = objs[src].filename_prefix
                /\ objs'[dst].flush_on_exit = objs[src].flush_on_exit
          /\ (dst # src /\ LastMove("move_assign", dst, src)
                  /\ HoldsData(ret.before[src]) /\ FlushObject(dst)) =>
                /\ HasSnapshot(files', objs[dst], 0)
                /\ ~HasSnapshot(files', objs[dst], 1)]_vars

\* C24: a = std::move(a) is a no-op: every object (a's current map, default
\* map, filename prefix and flush_on_exit flag among them) and every file is
\* as before, and a is still there for a following flush().
C24_SelfAssign ==
    [][\A h \in Handles :
          MoveAssign(h, h) =>
              /\ objs' = objs
              /\ files' = files
              /\ objs'[h].alive]_vars

\* C24's case: kvs_a, holding data, was just assigned to itself
C24_Witness ==
    /\ LastMove("move_assign", "kvs_a", "kvs_a")
    /\ HoldsData(ret.before["kvs_a"])
    /\ HoldsData(objs["kvs_a"])

(* ------------------------------ KvsBuilder ----------------------------- *)

\* the setter calls a caller makes on one builder, at most
MaxBuilderCalls == 3

\* KvsBuilder::KvsBuilder(instance_id)
KvsBuilder_ctor(instance_id) ==
    [made |-> TRUE, instance_id |-> instance_id, need_defaults |-> FALSE,
     need_kvs |-> FALSE, dir |-> NoDir]

KvsBuilder_need_defaults_flag(b, flag) == [b EXCEPT !.need_defaults = flag]

KvsBuilder_need_kvs_flag(b, flag) == [b EXCEPT !.need_kvs = flag]

KvsBuilder_directory(b, d) == [b EXCEPT !.dir = d]

\* KvsBuilder::build()
KvsBuilder_build(fs, b, stack) ==
    Kvs_open(fs, b.instance_id,
             IF b.need_defaults THEN "Required" ELSE "Optional",
             IF b.need_kvs THEN "Required" ELSE "Optional",
             b.dir, stack)

InitBuilder ==
    /\ files \in {EmptyDir, PreparedDir}
    /\ envSteps = 0
    /\ call = NoCall
    /\ result = NoResult
    /\ reads = <<>>
    /\ ret = [op |-> "none", arg |-> <<>>, res |-> Ok("void")]
    /\ pc = [t \in Threads |-> Idle]
    /\ kvs_mutex = NoThread
    /\ objs = [h \in Handles |-> NoObject]
    /\ builder = NoBuilder

\* a call on the builder; ret.arg keeps the setter calls made on it so far
Configures(b, calls) ==
    /\ builder' = b
    /\ ret' = [op |-> "KvsBuilder", arg |-> calls, res |-> Ok("void")]
    /\ call' = NoCall
    /\ result' = NoResult
    /\ reads' = <<>>
    /\ UNCHANGED <<files, envSteps, pc, kvs_mutex, objs>>

\* KvsBuilder builder(instance_id);
NewBuilder ==
    \E instance_id \in InstanceIds :
        /\ ~builder.made
        /\ Configures(KvsBuilder_ctor(instance_id), <<>>)

\* the builder may take one more setter call
MaySet == builder.made /\ Len(ret.arg) < MaxBuilderCalls

\* builder.need_defaults_flag(flag);
Set_need_defaults_flag ==
    \E flag \in BOOLEAN :
        /\ MaySet
        /\ Configures(KvsBuilder_need_defaults_flag(builder, flag),
                      Append(ret.arg, [f |-> "need_defaults_flag", flag |-> flag]))

\* builder.need_kvs_flag(flag);
Set_need_kvs_flag ==
    \E flag \in BOOLEAN :
        /\ MaySet
        /\ Configures(KvsBuilder_need_kvs_flag(builder, flag),
                      Append(ret.arg, [f |-> "need_kvs_flag", flag |-> flag]))

\* builder.directory(d);
Set_directory ==
    \E d \in {TestDir} :
        /\ MaySet
        /\ Configures(KvsBuilder_directory(builder, d),
                      Append(ret.arg, [f |-> "directory", d |-> d]))

\* auto result = builder.build();
Build ==
    /\ builder.made
    /\ \E stack \in StacksFor(files, builder.instance_id, builder.dir) :
          LET r == KvsBuilder_build(files, builder, stack)
          IN  /\ result' = r.result
              /\ reads' = r.reads
              /\ call' = [made |-> TRUE, stack |-> stack]
    /\ UNCHANGED <<files, envSteps, ret, pc, kvs_mutex, objs, builder>>

\* the builder goes out of scope
DropBuilder ==
    /\ builder.made
    /\ builder' = NoBuilder
    /\ ret' = [op |-> "none", arg |-> <<>>, res |-> Ok("void")]
    /\ call' = NoCall
    /\ result' = NoResult
    /\ reads' = <<>>
    /\ UNCHANGED <<files, envSteps, pc, kvs_mutex, objs>>

BuilderNext ==
    \/ NewBuilder
    \/ Set_need_defaults_flag
    \/ Set_need_kvs_flag
    \/ Set_directory
    \/ Build
    \/ DropBuilder

SpecBuilder == InitBuilder /\ [][BuilderNext]_vars

\* the position of the last call of setter f among the calls, 0 if none
LastIndex(calls, f) ==
    LET S == {i \in 1..Len(calls) : calls[i].f = f}
    IN  IF S = {} THEN 0 ELSE CHOOSE i \in S : \A j \in S : j <= i

\* the last call of the flag setter f passed true (no call: false)
PassedTrue(f) ==
    LET i == LastIndex(ret.arg, f) IN IF i = 0 THEN FALSE ELSE ret.arg[i].flag

\* the directory of the last directory() call (no call: none)
ConfiguredDir ==
    LET i == LastIndex(ret.arg, "directory") IN IF i = 0 THEN NoDir ELSE ret.arg[i].d

RequiredIf(flag) == IF flag THEN "Required" ELSE "Optional"

\* C25: build() returns what Kvs::open returns for the builder's instance,
\* need_defaults=Required iff the last need_defaults_flag call passed true,
\* need_kvs=Required iff the last need_kvs_flag call passed true, and the
\* configured directory; so with no file there a builder with
\* need_defaults_flag(true) or need_kvs_flag(true) fails with KvsFileReadError
\* and a builder with neither flag succeeds.
C25_Builder ==
    (builder.made /\ call.made) =>
        /\ [result |-> result, reads |-> reads]
             = Kvs_open(files, builder.instance_id,
                        RequiredIf(PassedTrue("need_defaults_flag")),
                        RequiredIf(PassedTrue("need_kvs_flag")),
                        ConfiguredDir, call.stack)
        /\ files = EmptyDir =>
              IF PassedTrue("need_defaults_flag") \/ PassedTrue("need_kvs_flag")
              THEN result = MakeUnexpected("KvsFileReadError")
              ELSE result.ok

(* ------------------------------ MessageFor ----------------------------- *)

\* the value of an enumerator of MyErrorCode: its position, from 0
EnumValue(name) == (CHOOSE i \in 1..Len(MyErrorCode) : MyErrorCode[i] = name) - 1

\* the case labels of the switch and what each returns
MessageCases ==
    << <<"UnmappedError", "Error that was not yet mapped">>,
       <<"FileNotFound", "File not found">>,
       <<"KvsFileReadError", "KVS file read error">>,
       <<"KvsHashFileReadError", "KVS hash file read error">>,
       <<"JsonParserError", "JSON parser error">>,
       <<"JsonGeneratorError", "JSON generator error">>,
       <<"PhysicalStorageFailure", "Physical storage failure">>,
       <<"IntegrityCorrupted", "Integrity corrupted">>,
       <<"ValidationFailed", "Validation failed">>,
       <<"EncryptionFailed", "Encryption failed">>,
       <<"ResourceBusy", "Resource is busy">>,
       <<"OutOfStorageSpace", "Out of storage space">>,
       <<"QuotaExceeded", "Quota exceeded">>,
       <<"AuthenticationFailed", "Authentication failed">>,
       <<"KeyNotFound", "Key not found">>,
       <<"SerializationFailed", "Serialization failed">>,
       <<"InvalidSnapshotId", "Invalid snapshot ID">>,
       <<"ConversionFailed", "Conversion failed">>,
       <<"MutexLockFailed", "Mutex failed">> >>

\* MyErrorDomain::MessageFor(code): the matching case, or the default label
MessageFor(code) ==
    LET hits == {i \in 1..Len(MessageCases) : EnumValue(MessageCases[i][1]) = code}
    IN  IF hits # {} THEN MessageCases[CHOOSE i \in hits : TRUE][2]
        ELSE "Unknown Error!"

\* the code the test takes for an invalid one
invalid_code == 9999

\* the codes tried: those around the enumerators, up to this one either way
MaxErrorCode == 30

ErrorCodes == ((0 - MaxErrorCode)..MaxErrorCode) \cup {invalid_code}

\* the table of the test: enumerator and expected message
test_cases ==
    << <<"UnmappedError", "Error that was not yet mapped">>,
       <<"FileNotFound", "File not found">>,
       <<"KvsFileReadError", "KVS file read error">>,
       <<"KvsHashFileReadError", "KVS hash file read error">>,
       <<"JsonParserError", "JSON parser error">>,
       <<"JsonGeneratorError", "JSON generator error">>,
       <<"PhysicalStorageFailure", "Physical storage failure">>,
       <<"IntegrityCorrupted", "Integrity corrupted">>,
       <<"ValidationFailed", "Validation failed">>,
       <<"EncryptionFailed", "Encryption failed">>,
       <<"ResourceBusy", "Resource is busy">>,
       <<"OutOfStorageSpace", "Out of storage space">>,
       <<"QuotaExceeded", "Quota exceeded">>,
       <<"AuthenticationFailed", "Authentication failed">>,
       <<"KeyNotFound", "Key not found">>,
       <<"KeyDefaultNotFound", "Key default value not found">>,
       <<"SerializationFailed", "Serialization failed">>,
       <<"InvalidSnapshotId", "Invalid snapshot ID">>,
       <<"ConversionFailed", "Conversion failed">>,
       <<"MutexLockFailed", "Mutex failed">>,
       <<"InvalidValueType", "Invalid value type">> >>

InitMessageFor ==
    /\ files = EmptyDir
    /\ envSteps = 0
    /\ call \in {[made |-> FALSE, code |-> code] : code \in ErrorCodes}
    /\ result = NoResult
    /\ reads = <<>>
    /\ ret = NoRet
    /\ pc = [t \in Threads |-> Idle]
    /\ kvs_mutex = NoThread
    /\ objs = [h \in Handles |-> NoObject]
    /\ builder = NoBuilder

\* my_error_domain.MessageFor(code)
CallMessageFor ==
    /\ ret = NoRet
    /\ ret' = [op |-> "MessageFor", arg |-> <<call.code>>, res |-> Ok(MessageFor(call.code))]
    /\ UNCHANGED <<files, envSteps, call, result, reads, pc, kvs_mutex, objs, builder>>

SpecMessageFor == InitMessageFor /\ [][CallMessageFor]_vars

\* the enumerators of MyErrorCode
EnumNames == {MyErrorCode[i] : i \in 1..Len(MyErrorCode)}

\* the codes of the enumerators
EnumValues == {EnumValue(name) : name \in EnumNames}

\* C26: MessageFor is total: every code the test lists (UnmappedError ..
\* MutexLockFailed, with KeyDefaultNotFound and InvalidValueType) is a code of
\* MyErrorCode and maps to the description the test gives, and every other
\* code (9999 for one) maps to "Unknown Error!".
C26_MessageFor ==
    ret.op = "MessageFor" =>
        /\ ret.res.ok
        /\ \A i \in 1..Len(test_cases) :
              /\ test_cases[i][1] \in EnumNames
              /\ ret.arg[1] = EnumValue(test_cases[i][1]) => ret.res.value = test_cases[i][2]
        /\ ret.arg[1] \notin EnumValues => ret.res.value = "Unknown Error!"

(* --------------------------- the codec's inputs ------------------------ *)

\* the elements of a list and the members of an object, at most
MaxItems == 2

Leaves ==
    {JsonNull, JsonBool(TRUE), JsonBool(FALSE), JsonNumber(1), JsonString("a"),
     JsonUnsupported}

\* the keys of the objects tried, in the iteration order of score::json::Object
ObjectKeys == <<"a", "b", "c">>

ListsOver(S) == UNION {[1..n -> S] : n \in 0..MaxItems}

MembersOver(S) ==
    UNION {{[i \in 1..n |-> <<ObjectKeys[i], f[i]>>] : f \in [1..n -> S]} :
              n \in 0..MaxItems}

\* leaves, and lists and objects of leaves
FlatTrees ==
    Leaves \cup {JsonList(l) : l \in ListsOver(Leaves)}
           \cup {JsonObject(m) : m \in MembersOver(Leaves)}

\* and a list and an object around each of those
Trees ==
    FlatTrees \cup {JsonList(<<t>>) : t \in FlatTrees}
              \cup {JsonObject(<< <<"a", t>> >>) : t \in FlatTrees}

InitCodec ==
    /\ files = EmptyDir
    /\ envSteps = 0
    /\ call \in {[made |-> FALSE, tree |-> t] : t \in Trees}
    /\ result = NoResult
    /\ reads = <<>>
    /\ ret = NoRet
    /\ pc = [t \in Threads |-> Idle]
    /\ kvs_mutex = NoThread
    /\ objs = [h \in Handles |-> NoObject]
    /\ builder = NoBuilder

\* auto conv = any_to_kvsvalue(tree);
CallAnyToKvsValue ==
    /\ ret = NoRet
    /\ ret' = [op |-> "any_to_kvsvalue", arg |-> <<>>, res |-> any_to_kvsvalue(call.tree)]
    /\ UNCHANGED <<files, envSteps, call, result, reads, pc, kvs_mutex, objs, builder>>

SpecCodec == InitCodec /\ [][CallAnyToKvsValue]_vars

\* no node of the tree, at any depth, is of an unsupported type
RECURSIVE Supported(_)
Supported(any) ==
    CASE any.t = "List"   -> \A i \in 1..Len(any.items) : Supported(any.items[i])
      [] any.t = "Object" -> \A i \in 1..Len(any.members) : Supported(any.members[i][2])
      [] OTHER            -> any.t \in {"Null", "Bool", "Number", "String"}

\* the value has the shape of the tree: the same variant at every node, the
\* same payload in every scalar, the elements of every list in their order,
\* the keys of every object
RECURSIVE Mirrors(_, _)
Mirrors(any, v) ==
    CASE any.t = "Null"   -> v.type = "Null"
      [] any.t = "Bool"   -> v.type = "Boolean" /\ v.boolean = any.b
      [] any.t = "Number" -> v.type = "Number" /\ v.number = any.num
      [] any.t = "String" -> v.type = "String" /\ v.string = any.str
      [] any.t = "List"   ->
            /\ v.type = "Array"
            /\ Len(v.array) = Len(any.items)
            /\ \A i \in 1..Len(any.items) : Mirrors(any.items[i], v.array[i])
      [] any.t = "Object" ->
            /\ v.type = "Object"
            /\ DOMAIN v.object = {any.members[i][1] : i \in 1..Len(any.members)}
            /\ \A i \in 1..Len(any.members) :
                  Mirrors(any.members[i][2], v.object[any.members[i][1]])
      [] OTHER            -> FALSE

Converted == ret.op = "any_to_kvsvalue"

\* C27: for every tree built only from null, boolean, number, string, list
\* and object nodes any_to_kvsvalue succeeds, and the value it returns has the
\* shape of the tree.
C27_CodecMirrors ==
    (Converted /\ Supported(call.tree)) =>
        (ret.res.ok /\ Mirrors(call.tree, ret.res.value))

\* C27's case: a converted list of two different scalars inside an object
C27_Witness ==
    /\ Converted
    /\ call.tree = JsonObject(<< <<"a", JsonList(<<JsonNumber(1), JsonString("a")>>)>> >>)
    /\ ret.res.ok

\* C28: any_to_kvsvalue fails, with ConversionFailed and without a value, if
\* and only if some node of the tree is of an unsupported type; a value it
\* returns is never a partly filled array or object.
C28_CodecAllOrNothing ==
    Converted =>
        /\ ret.res.ok <=> Supported(call.tree)
        /\ ~ret.res.ok =>
              (ret.res = MakeUnexpected("ConversionFailed") /\ DOMAIN ret.res = {"ok", "err"})
        /\ ret.res.ok => Mirrors(call.tree, ret.res.value)

\* C28's case: an object whose second member is unsupported, after a first
\* member that converts, was refused
C28_Witness ==
    /\ Converted
    /\ call.tree = JsonObject(<< <<"a", JsonNumber(1)>>, <<"b", JsonUnsupported>> >>)
    /\ ~ret.res.ok

(* ------------------------ roots that are no object --------------------- *)

\* a file that parses, to a root that is not an object
IsJsonNonObject(json) == IsJsonText(json) /\ FromBuffer(json.bytes).value.t # "Object"

\* the two load steps of the call just made
DefaultStep ==
    open_json(files, FilenameDefault(call.instance_id, call.dir),
              NeedFile(call.need_defaults), "No", call.stack).result

KvsStep ==
    open_json(files, FilenameKvs(call.instance_id, call.dir),
              NeedFile(call.need_kvs), "Yes", call.stack).result

\* C29: a file that parses to a root that is not an object loads as the empty
\* map, without an error: the default file always, the current snapshot file
\* once its checksum matched; an open whose two steps succeed returns a Kvs
\* with that empty map.
C29_NonObjectRoot ==
    JustOpened =>
        /\ IsJsonNonObject(CallDefaultJson) =>
              /\ DefaultStep = Ok(EmptyMap)
              /\ result.ok => result.value.default_values = EmptyMap
        /\ (IsJsonNonObject(CallKvsJson) /\ Matches(CallKvsHash, CallKvsJson)) =>
              /\ KvsStep = Ok(EmptyMap)
              /\ DefaultStep.ok => (result.ok /\ result.value.kvs = EmptyMap)

\* C29's case: an open that succeeded on a current snapshot file holding a list
C29_Witness ==
    /\ JustOpened
    /\ IsJsonNonObject(CallKvsJson)
    /\ Matches(CallKvsHash, CallKvsJson)
    /\ result.ok
    /\ result.value.kvs = EmptyMap

\* the same for the default file
C29_DefaultReached ==
    /\ JustOpened
    /\ IsJsonNonObject(CallDefaultJson)
    /\ result.ok
    /\ result.value.default_values = EmptyMap

(* ----------------------- files that do not load ----------------------- *)

\* the texts a JSON file of the directory may hold
ParserTexts == JsonTexts \cup {extension_json, empty_key_json}

\* prepare_enviromnnt(), and then one JSON file rewritten (the current
\* snapshot file together with its checksum file)
RewrittenDirs ==
    {[PreparedDir EXCEPT ![JsonPath(default_prefix)] = File(text)] :
        text \in ParserTexts}
    \cup
    {[PreparedDir EXCEPT ![JsonPath(kvs_prefix)] = File(text),
                         ![HashPath(kvs_prefix)] = File(get_hash_bytes(text))] :
        text \in ParserTexts}

InitParse ==
    /\ files \in RewrittenDirs
    /\ envSteps = 0
    /\ call = NoCall
    /\ result = NoResult
    /\ reads = <<>>
    /\ ret = NoRet
    /\ pc = [t \in Threads |-> Idle]
    /\ kvs_mutex = NoThread
    /\ objs = [h \in Handles |-> NoObject]
    /\ builder = NoBuilder

SpecParse == InitParse /\ [][Open]_vars

\* a file that is there and is no JSON text
IsNotJson(json) == json.exists /\ ~FromBuffer(json.bytes).ok

\* a file holding an object of which some member is of an unsupported type
MemberFails(json) ==
    /\ IsJsonObject(json)
    /\ \E i \in 1..Len(FromBuffer(json.bytes).value.members) :
          ~Supported(FromBuffer(json.bytes).value.members[i][2])

\* C30: a file that was read (and, for the current snapshot, whose checksum
\* matched) and is no JSON text makes open fail with JsonParserError; one with
\* a member that does not convert makes open fail with ConversionFailed, and
\* the Result then carries the error alone, no map of the members before it.
C30_ParseFailures ==
    JustOpened =>
        /\ IsNotJson(CallDefaultJson) => result = MakeUnexpected("JsonParserError")
        /\ (DefaultStep.ok /\ IsNotJson(CallKvsJson) /\ Matches(CallKvsHash, CallKvsJson)) =>
              result = MakeUnexpected("JsonParserError")
        /\ MemberFails(CallDefaultJson) =>
              (result = MakeUnexpected("ConversionFailed") /\ DOMAIN result = {"ok", "err"})
        /\ (DefaultStep.ok /\ MemberFails(CallKvsJson) /\ Matches(CallKvsHash, CallKvsJson)) =>
              (result = MakeUnexpected("ConversionFailed") /\ DOMAIN result = {"ok", "err"})

\* C30's case: an open refused for the second member of the verified current
\* snapshot file, after a first member that converts
C30_Witness ==
    /\ JustOpened
    /\ DefaultStep.ok
    /\ MemberFails(CallKvsJson)
    /\ Supported(FromBuffer(CallKvsJson.bytes).value.members[1][2])
    /\ Matches(CallKvsHash, CallKvsJson)
    /\ ~result.ok

\* an open refused for a verified current snapshot file that is no JSON text
C30_ParserErrorReached ==
    /\ JustOpened
    /\ DefaultStep.ok
    /\ IsNotJson(CallKvsJson)
    /\ Matches(CallKvsHash, CallKvsJson)
    /\ ~result.ok

(* ------------------------ adler32, byte by byte ----------------------- *)

\* the length of the byte sequences that are tried in full
MaxBytes == 3

\* the length of the run of 0xFF bytes, long enough for a and b to wrap
LongLen == 300

\* the smallest, an ordinary and the largest unsigned char
SomeBytes == {0, 1, 255}

\* "Hello, World!"
test_data == <<72, 101, 108, 108, 111, 44, 32, 87, 111, 114, 108, 100, 33>>

LongRun == [i \in 1..LongLen |-> 255]

AdlerInputs ==
    UNION {[1..n -> SomeBytes] : n \in 0..MaxBytes}
        \cup {test_data, default_json, kvs_json, LongRun}

Max3(x, y, z) ==
    IF x >= y /\ x >= z THEN x ELSE IF y >= z THEN y ELSE z

\* uint32_t a = 1, b = 0; wide is the largest value an addition has produced
InitAdler ==
    /\ files = EmptyDir
    /\ envSteps = 0
    /\ call \in {[made |-> FALSE, data |-> d, i |-> 1, a |-> 1, b |-> 0, wide |-> 1] :
                    d \in AdlerInputs}
    /\ result = NoResult
    /\ reads = <<>>
    /\ ret = NoRet
    /\ pc = [t \in Threads |-> Idle]
    /\ kvs_mutex = NoThread
    /\ objs = [h \in Handles |-> NoObject]
    /\ builder = NoBuilder

\* a = (a + c) % mod; b = (b + a) % mod;
AdlerStep ==
    /\ ~call.made
    /\ call.i <= Len(call.data)
    /\ LET c     == call.data[call.i]
           sum_a == call.a + c
           a2    == sum_a % mod
           sum_b == call.b + a2
           b2    == sum_b % mod
       IN  call' = [call EXCEPT !.i = call.i + 1, !.a = a2, !.b = b2,
                                !.wide = Max3(call.wide, sum_a, sum_b)]
    /\ UNCHANGED <<files, envSteps, result, reads, ret, pc, kvs_mutex, objs, builder>>

\* return (b << 16) | a;
AdlerReturn ==
    /\ ~call.made
    /\ call.i > Len(call.data)
    /\ call' = [call EXCEPT !.made = TRUE]
    /\ ret' = [op |-> "adler32", arg |-> <<>>, res |-> Shl16Or(call.b, call.a)]
    /\ UNCHANGED <<files, envSteps, result, reads, pc, kvs_mutex, objs, builder>>

AdlerNext == AdlerStep \/ AdlerReturn

SpecAdler == InitAdler /\ [][AdlerNext]_vars

InAdler == "data" \in DOMAIN call

\* C31: after every byte both accumulators are in 0..65520 and no addition
\* has produced more than 2 * 65520 (far below 2^32); the value returned is b
\* in the upper and a in the lower 16 bits, no bit of b shifted out, and its
\* four bytes, most significant first, decode to it again; for the inputs up
\* to the length of the test files it is the checksum open_json computes for
\* the same bytes, and get_hash_bytes gives those four bytes.
C31_Adler32 ==
    InAdler =>
        /\ call.a \in 0..(mod - 1)
        /\ call.b \in 0..(mod - 1)
        /\ call.wide <= 2 * (mod - 1)
        /\ call.made =>
              /\ ret.res = [hi |-> call.b, lo |-> call.a]
              /\ get_hash_bytes_adler32(ret.res) =
                    <<call.b \div 256, call.b % 256, call.a \div 256, call.a % 256>>
              /\ DecodeBe32(get_hash_bytes_adler32(ret.res)) = ret.res
        /\ (call.made /\ Len(call.data) <= Len(default_json)) =>
              /\ ret.res = adler32(call.data)
              /\ get_hash_bytes(call.data) = get_hash_bytes_adler32(ret.res)

\* C31's case: the checksum 0x1F9E046A of "Hello, World!" was returned
C31_Witness ==
    /\ InAdler
    /\ call.made
    /\ call.data = test_data
    /\ ret.res = [hi |-> 8094, lo |-> 1130]

\* both accumulators have wrapped around the modulus
C31_Wrapped ==
    /\ InAdler
    /\ call.data = LongRun
    /\ call.made
    /\ call.a < 1 + 255 * Len(call.data)
    /\ call.wide >= mod

(* ------------------------------ the keys ------------------------------ *)

\* C32: in every Kvs a successful open returns, every key of the current map
\* and every key of the default map is a non-empty string.
C32_KeysNonEmpty ==
    (JustOpened /\ result.ok) =>
        /\ \A k \in DOMAIN result.value.kvs : k # ""
        /\ \A k \in DOMAIN result.value.default_values : k # ""

(* --------------------------- short hash files ------------------------- *)

\* C33: with a kvs_<id>_0.hash that is there and holds fewer than 4 bytes,
\* open never succeeds, whatever kvs_<id>_0.json holds.
C33_ShortHashRefused ==
    (JustOpened /\ CallKvsHash.exists /\ Len(CallKvsHash.bytes) < 4) => ~result.ok

(* ----------------- open_json, block by block, and the sentinel -------- *)

\* bool error = false; Result result = MakeUnexpected(UnmappedError); string data;
open_json_entry ==
    [error |-> FALSE, result |-> MakeUnexpected("UnmappedError"), data |-> <<>>]

\* Read JSON file
ReadJsonFile(st, fs, json_file, need_file) ==
    LET in == ReadFile(fs, json_file)
    IN  IF ~in.exists
        THEN IF need_file = "Required"
             THEN [st EXCEPT !.error = TRUE,
                             !.result = MakeUnexpected("KvsFileReadError")]
             ELSE [st EXCEPT !.result = Ok(EmptyMap)]
        ELSE [st EXCEPT !.data = in.bytes]

\* Verify JSON Hash
VerifyJsonHash(st, fs, hash_file, verify_hash, stack) ==
    IF st.error \/ verify_hash # "Yes" THEN st
    ELSE LET hin == ReadFile(fs, hash_file)
         IN  IF ~hin.exists
             THEN [st EXCEPT !.error = TRUE,
                             !.result = MakeUnexpected("KvsHashFileReadError")]
             ELSE IF DecodeBe32(ReadBuf(hin, stack)) # adler32(st.data)
             THEN [st EXCEPT !.error = TRUE,
                             !.result = MakeUnexpected("ValidationFailed")]
             ELSE st

\* a faulty last block: the map that was built is not moved into result
ParseJsonBlock_no_move(st) ==
    IF st.error THEN st
    ELSE LET any_res == FromBuffer(st.data)
         IN  IF ~any_res.ok
             THEN [st EXCEPT !.error = TRUE,
                             !.result = MakeUnexpected("JsonParserError")]
             ELSE LET conv == ConvertRoot(any_res.value)
                  IN  IF ~conv.ok
                      THEN [st EXCEPT !.error = TRUE,
                                      !.result = MakeUnexpected(conv.err)]
                      ELSE st

\* Parse JSON Data
ParseJsonBlock(st) ==
    IF st.error THEN st
    ELSE LET any_res == FromBuffer(st.data)
         IN  IF ~any_res.ok
             THEN [st EXCEPT !.error = TRUE,
                             !.result = MakeUnexpected("JsonParserError")]
             ELSE LET conv == ConvertRoot(any_res.value)
                  IN  IF ~conv.ok
                      THEN [st EXCEPT !.error = TRUE,
                                      !.result = MakeUnexpected(conv.err)]
                      ELSE [st EXCEPT !.result = Ok(conv.value)]

\* the three blocks in their order; return result
open_json_blocks(fs, prefix, need_file, verify_hash, stack) ==
    ParseJsonBlock(
        VerifyJsonHash(
            ReadJsonFile(open_json_entry, fs, JsonPath(prefix), need_file),
            fs, HashPath(prefix), verify_hash, stack)).result

\* Kvs::open over the blocks: result, UnmappedError at first, is assigned in
\* each of the three branches
Kvs_open_blocks(fs, instance_id, need_defaults, need_kvs, dir, stack) ==
    LET default_res == open_json_blocks(fs, FilenameDefault(instance_id, dir),
                                        NeedFile(need_defaults), "No", stack)
        kvs_res     == open_json_blocks(fs, FilenameKvs(instance_id, dir),
                                        NeedFile(need_kvs), "Yes", stack)
    IN  IF ~default_res.ok THEN MakeUnexpected(default_res.err)
        ELSE IF ~kvs_res.ok THEN MakeUnexpected(kvs_res.err)
        ELSE Ok(NewStore(kvs_res.value, default_res.value,
                         FilenamePrefix(instance_id, dir)))

\* a checksum file as it may be: missing, matching, corrupted, cut short
HashVariants(data) ==
    LET good == get_hash_bytes(data)
    IN  {Absent, File(good), File([good EXCEPT ![1] = 255]), File(SubSeq(good, 1, 2))}

JsonVariants == {Absent} \cup {File(text) : text \in ParserTexts}

\* every directory of the two JSON files and the current snapshot's checksum
AllDirs ==
    UNION {{[p \in Paths |->
                CASE p = JsonPath(default_prefix) -> dj
                  [] p = HashPath(default_prefix) -> Absent
                  [] p = JsonPath(kvs_prefix)     -> kj
                  [] p = HashPath(kvs_prefix)     -> kh] :
              kh \in HashVariants(IF kj.exists THEN kj.bytes ELSE <<>>)} :
           dj \in JsonVariants, kj \in JsonVariants}

InitOpenJson ==
    /\ files \in AllDirs
    /\ envSteps = 0
    /\ call = NoCall
    /\ result = NoResult
    /\ reads = <<>>
    /\ ret = NoRet
    /\ pc = [t \in Threads |-> Idle]
    /\ kvs_mutex = NoThread
    /\ objs = [h \in Handles |-> NoObject]
    /\ builder = NoBuilder

\* the buffer contents open_json of this prefix can observe
StacksForPrefix(fs, prefix) ==
    LET hin  == ReadFile(fs, HashPath(prefix))
        in   == ReadFile(fs, JsonPath(prefix))
        data == IF in.exists THEN in.bytes ELSE <<>>
    IN  IF hin.exists /\ Len(hin.bytes) < 4 THEN UninitBufs(data) ELSE {<<0, 0, 0, 0>>}

\* auto res = open_json(prefix, need_file, verify_hash)
CallOpenJson ==
    \E prefix \in Prefixes, need_file \in {"Required", "Optional"},
       verify_hash \in {"Yes", "No"} :
        \E stack \in StacksForPrefix(files, prefix) :
            /\ call' = [made |-> FALSE, prefix |-> prefix, need_file |-> need_file,
                        verify_hash |-> verify_hash, stack |-> stack]
            /\ ret' = [op |-> "open_json", arg |-> <<>>,
                       res |-> open_json_blocks(files, prefix, need_file,
                                                verify_hash, stack)]
            /\ result' = NoResult
            /\ reads' = <<>>
            /\ UNCHANGED <<files, envSteps, pc, kvs_mutex, objs, builder>>

\* result = Kvs::open(instance_id, need_defaults, need_kvs, dir)
OpenBlocks ==
    \E instance_id \in InstanceIds, need_defaults \in Needs, need_kvs \in Needs,
       dir \in Dirs :
        \E stack \in StacksFor(files, instance_id, dir) :
            /\ call' = [made |-> TRUE, instance_id |-> instance_id,
                        need_defaults |-> need_defaults, need_kvs |-> need_kvs,
                        dir |-> dir, stack |-> stack]
            /\ result' = Kvs_open_blocks(files, instance_id, need_defaults,
                                         need_kvs, dir, stack)
            /\ reads' = <<>>
            /\ ret' = NoRet
            /\ UNCHANGED <<files, envSteps, pc, kvs_mutex, objs, builder>>

OpenJsonNext == CallOpenJson \/ OpenBlocks

SpecOpenJson == InitOpenJson /\ [][OpenJsonNext]_vars

\* the blocks return what open_json and Kvs_open return
BlocksAgree ==
    /\ ret.op = "open_json" =>
          ret.res = open_json(files, call.prefix, call.need_file, call.verify_hash,
                              call.stack).result
    /\ JustOpened =>
          result = Kvs_open(files, call.instance_id, call.need_defaults,
                            call.need_kvs, call.dir, call.stack).result

\* C34: neither open_json nor Kvs::open returns the UnmappedError their result
\* starts as, on any path.
C34_NoSentinel ==
    /\ ret.op = "open_json" => (ret.res.ok \/ ret.res.err # "UnmappedError")
    /\ JustOpened => (result.ok \/ result.err # "UnmappedError")

\* C34's case: open_json returned the map of a verified file, the path on
\* which no block sets the error flag
C34_Witness ==
    /\ ret.op = "open_json"
    /\ call.verify_hash = "Yes"
    /\ ReadFile(files, JsonPath(call.prefix)).exists
    /\ ret.res.ok
    /\ ret.res.value # EmptyMap

(* ---------------- the FFI-backed Kvs (src/src/kvs_cpp) ---------------- *)

\* how many engine handles open_ffi hands out
MaxHandles == 2

nullptr == 0

FFI_Ok == 100

FFI_InvalidKvsHandle == 101

FFI_InvalidArgument == 102

\* the values of enum class FFIErrorCode
FFIErrorCode == {FFI_Ok, FFI_InvalidKvsHandle, FFI_InvalidArgument} \cup (0..18)

\* the values of the enumerators of enum class ErrorCode
ErrorCode == 0..18

\* static_cast<ErrorCode>(code): the value of the underlying integer is kept
static_cast_ErrorCode(code) == code

\* the engine: the handles it has handed out, and the drop_kvs calls it got
NoEngine ==
    [made |-> FALSE, issued |-> 0, drops |-> [e \in 1..MaxHandles |-> 0],
     null_drops |-> 0]

\* Kvs() = default; void* kvshandle = nullptr;
FfiKvs(handle) == [alive |-> TRUE, kvshandle |-> handle]

drop_kvs(eng, kvshandle) ==
    IF kvshandle = nullptr THEN [eng EXCEPT !.null_drops = @ + 1]
    ELSE [eng EXCEPT !.drops[kvshandle] = @ + 1]

\* a faulty Kvs(Kvs&& other): other keeps its handle
FfiKvs_move_ctor_keeps(other) ==
    [this |-> FfiKvs(other.kvshandle), other |-> other]

\* Kvs(Kvs&& other): [this, other] after it
FfiKvs_move_ctor(other) ==
    [this |-> FfiKvs(other.kvshandle), other |-> FfiKvs(nullptr)]

\* operator=(Kvs&& other): [this, other, eng] after it
FfiKvs_move_assign(this, other, same, eng) ==
    IF same THEN [this |-> this, other |-> this, eng |-> eng]
    ELSE [this  |-> FfiKvs(other.kvshandle),
          other |-> FfiKvs(nullptr),
          eng   |-> IF this.kvshandle # nullptr THEN drop_kvs(eng, this.kvshandle)
                    ELSE eng]

\* ~Kvs(): the engine after it
FfiKvs_dtor(this, eng) ==
    IF this.kvshandle # nullptr THEN drop_kvs(eng, this.kvshandle) ELSE eng

\* Kvs::open over an open_ffi that returned code (and, with Ok, a new handle):
\* kvs_instance takes the handle, is moved into the Result and destroyed
FfiKvs_open(eng, code) ==
    IF code # FFI_Ok
    THEN [result |-> MakeUnexpected(static_cast_ErrorCode(code)), eng |-> eng]
    ELSE LET kvshandle    == eng.issued + 1
             kvs_instance == FfiKvs(kvshandle)
             moved        == FfiKvs_move_ctor(kvs_instance)
         IN  [result |-> Ok(moved.this),
              eng    |-> FfiKvs_dtor(moved.other, [eng EXCEPT !.issued = kvshandle])]

\* the operations of the wrapper that return a Result
FfiOps ==
    {"reset", "get_all_keys", "key_exists", "get_default_value", "is_value_default",
     "set_value", "remove_key", "flush", "snapshot_restore", "get_kvs_filename",
     "get_kvs_hash_filename"}

\* an operation of the wrapper over an FFI function that returned code
FfiKvs_call(code) ==
    IF code = FFI_Ok THEN Ok("value")
    ELSE MakeUnexpected(static_cast_ErrorCode(code))

InitFfi ==
    /\ files = EmptyDir
    /\ envSteps = 0
    /\ call = NoEngine
    /\ result = NoResult
    /\ reads = <<>>
    /\ ret = NoRet
    /\ pc = [t \in Threads |-> Idle]
    /\ kvs_mutex = NoThread
    /\ objs = [h \in Handles |-> NoObject]
    /\ builder = NoBuilder

FfiUnchanged == UNCHANGED <<files, envSteps, result, reads, pc, kvs_mutex, builder>>

\* auto res = Kvs::open(id, need_defaults, need_kvs); the Kvs of a successful
\* open lives in h
FfiOpen(h) ==
    /\ ~objs[h].alive
    /\ \E code \in FFIErrorCode :
          /\ code = FFI_Ok => call.issued < MaxHandles
          /\ LET r == FfiKvs_open(call, code)
             IN  /\ call' = r.eng
                 /\ objs' = IF r.result.ok THEN [objs EXCEPT ![h] = r.result.value]
                            ELSE objs
                 /\ ret' = [op |-> "open", arg |-> <<h>>, res |-> r.result,
                            before |-> call]
    /\ FfiUnchanged

\* Kvs dst(std::move(src));
FfiMoveConstruct(dst, src) ==
    /\ ~objs[dst].alive
    /\ objs[src].alive
    /\ LET r == FfiKvs_move_ctor(objs[src])
       IN  objs' = [objs EXCEPT ![dst] = r.this, ![src] = r.other]
    /\ ret' = [op |-> "move_ctor", arg |-> <<dst, src>>, res |-> Ok("void"),
               before |-> call]
    /\ UNCHANGED call
    /\ FfiUnchanged

\* dst = std::move(src);
FfiMoveAssign(dst, src) ==
    /\ objs[dst].alive
    /\ objs[src].alive
    /\ LET r == FfiKvs_move_assign(objs[dst], objs[src], dst = src, call)
       IN  /\ objs' = [objs EXCEPT ![src] = r.other, ![dst] = r.this]
           /\ call' = r.eng
    /\ ret' = [op |-> "move_assign", arg |-> <<dst, src>>, res |-> Ok("void"),
               before |-> call]
    /\ FfiUnchanged

\* h goes out of scope
FfiDestroy(h) ==
    /\ objs[h].alive
    /\ call' = FfiKvs_dtor(objs[h], call)
    /\ objs' = [objs EXCEPT ![h] = NoObject]
    /\ ret' = [op |-> "dtor", arg |-> <<h>>, res |-> Ok("void"), before |-> call]
    /\ FfiUnchanged

\* an operation on h, the engine answering with code
FfiCall(h) ==
    /\ objs[h].alive
    /\ \E op \in FfiOps, code \in FFIErrorCode :
          ret' = [op |-> op, arg |-> <<h>>, res |-> FfiKvs_call(code)]
    /\ UNCHANGED <<call, objs>>
    /\ FfiUnchanged

\* the life of the wrappers and of the engine handles they hold
FfiNext ==
    \/ \E h \in Handles : FfiOpen(h)
    \/ \E dst \in Handles, src \in Handles : FfiMoveConstruct(dst, src)
    \/ \E dst \in Handles, src \in Handles : FfiMoveAssign(dst, src)
    \/ \E h \in Handles : FfiDestroy(h)

SpecFfi == InitFfi /\ [][FfiNext]_vars

\* the calls on the wrappers that were opened
FfiCallsNext ==
    \/ \E h \in Handles : FfiOpen(h)
    \/ \E h \in Handles : FfiCall(h)

SpecFfiCalls == InitFfi /\ [][FfiCallsNext]_vars

InFfi == "issued" \in DOMAIN call

\* the live wrappers that hold the engine handle e
Holders(e) == {h \in Handles : objs[h].alive /\ objs[h].kvshandle = e}

\* C35: drop_kvs is never called on a null handle and never twice on one
\* handle; a handle that open_ffi returned is held by exactly one live Kvs
\* until it is dropped and by none afterwards, so that it has been dropped
\* exactly once when no Kvs is left; handles not yet returned are held by
\* nobody and never dropped, and a failed open returns no Kvs, leaves the
\* engine as it was and calls drop_kvs zero times.
C35_DropOnce ==
    InFfi =>
        /\ call.null_drops = 0
        /\ \A e \in 1..MaxHandles :
              /\ call.drops[e] <= 1
              /\ e <= call.issued =>
                    (Cardinality(Holders(e)) = 1 - call.drops[e])
              /\ e > call.issued => (Holders(e) = {} /\ call.drops[e] = 0)
        /\ (ret.op = "open" /\ ~ret.res.ok) =>
              (call = ret.before /\ ~objs[ret.arg[1]].alive)

\* C35's case: both handles were opened, moved and assigned over, and every
\* Kvs is gone: each handle was dropped once
C35_Witness ==
    /\ InFfi
    /\ call.issued = MaxHandles
    /\ \A h \in Handles : ~objs[h].alive
    /\ \A e \in 1..MaxHandles : call.drops[e] = 1
    /\ ret.op = "dtor"

\* a handle dropped by a move-assignment over a Kvs that held it
C35_AssignDrops ==
    /\ InFfi
    /\ ret.op = "move_assign"
    /\ ret.arg[1] # ret.arg[2]
    /\ call # ret.before

\* C37: every error a Result of the wrapper carries is the value of an
\* enumerator of ErrorCode, 0..18.
C37_ErrorsInEnum ==
    (InFfi /\ ~ret.res.ok) => ret.res.err \in ErrorCode

(* ------------- Key and Filename: the strings of the engine ------------ *)

\* how many C strings the engine hands out
MaxStrings == 2

nullopt == 0

\* the engine's allocator: the strings handed out, the free_rust_cstring calls
NoStrings == [made |-> FALSE, handed |-> 0, frees |-> [s \in 1..MaxStrings |-> 0]]

free_rust_cstring(eng, ptr) == [eng EXCEPT !.frees[ptr] = @ + 1]

\* Key::Key() = default;
Key(id_ptr) == [alive |-> TRUE, class |-> "Key", id_ptr |-> id_ptr]

\* Filename::Filename() = default;
Filename(id_ptr) == [alive |-> TRUE, class |-> "Filename", id_ptr |-> id_ptr]

\* Key(Key&& other): [this, other] after it
Key_move_ctor(other) == [this |-> Key(other.id_ptr), other |-> Key(nullopt)]

\* Key::operator=(Key&& other): [this, other] after it
Key_move_assign(this, other, same) ==
    IF same THEN [this |-> this, other |-> this]
    ELSE [this |-> Key(other.id_ptr), other |-> Key(nullopt)]

\* Key::dealloc(), called by ~Key(): the allocator after it
Key_dealloc(this, eng) ==
    IF this.id_ptr # nullopt THEN free_rust_cstring(eng, this.id_ptr) ELSE eng

\* Filename(Filename&& other)
Filename_move_ctor(other) ==
    [this |-> Filename(other.id_ptr), other |-> Filename(nullopt)]

\* Filename::operator=(Filename&& other)
Filename_move_assign(this, other, same) ==
    IF same THEN [this |-> this, other |-> this]
    ELSE [this |-> Filename(other.id_ptr), other |-> Filename(nullopt)]

\* Filename::dealloc(), called by ~Filename()
Filename_dealloc(this, eng) ==
    IF this.id_ptr # nullopt THEN free_rust_cstring(eng, this.id_ptr) ELSE eng

Classes == {"Key", "Filename"}

InitStrings ==
    /\ files = EmptyDir
    /\ envSteps = 0
    /\ call = NoStrings
    /\ result = NoResult
    /\ reads = <<>>
    /\ ret = NoRet
    /\ pc = [t \in Threads |-> Idle]
    /\ kvs_mutex = NoThread
    /\ objs = [h \in Handles |-> NoObject]
    /\ builder = NoBuilder

StringsUnchanged ==
    UNCHANGED <<files, envSteps, result, reads, pc, kvs_mutex, builder>>

\* Key k;  or  Filename fname;
StringNew(h) ==
    /\ ~objs[h].alive
    /\ \E c \in Classes :
          objs' = [objs EXCEPT ![h] = IF c = "Key" THEN Key(nullopt)
                                      ELSE Filename(nullopt)]
    /\ ret' = [op |-> "new", arg |-> <<h>>, res |-> Ok("void")]
    /\ UNCHANGED call
    /\ StringsUnchanged

\* k.set_key(ptr, len)  or  fname.set(ptr, len), with a string the engine
\* has just handed out; an object that has one already throws
StringSet(h) ==
    /\ objs[h].alive
    /\ IF objs[h].id_ptr # nullopt
       THEN /\ ret' = [op |-> "set", arg |-> <<h>>,
                       res |-> MakeUnexpected("std::runtime_error")]
            /\ UNCHANGED <<call, objs>>
       ELSE /\ call.handed < MaxStrings
            /\ call' = [call EXCEPT !.handed = @ + 1]
            /\ objs' = [objs EXCEPT ![h].id_ptr = call.handed + 1]
            /\ ret' = [op |-> "set", arg |-> <<h>>, res |-> Ok("void")]
    /\ StringsUnchanged

\* Key dst(std::move(src));  or the same for Filename
StringMoveConstruct(dst, src) ==
    /\ ~objs[dst].alive
    /\ objs[src].alive
    /\ LET r == IF objs[src].class = "Key" THEN Key_move_ctor(objs[src])
                ELSE Filename_move_ctor(objs[src])
       IN  objs' = [objs EXCEPT ![dst] = r.this, ![src] = r.other]
    /\ ret' = [op |-> "move_ctor", arg |-> <<dst, src>>, res |-> Ok("void")]
    /\ UNCHANGED call
    /\ StringsUnchanged

\* dst = std::move(src);
StringMoveAssign(dst, src) ==
    /\ objs[dst].alive
    /\ objs[src].alive
    /\ objs[dst].class = objs[src].class
    /\ LET r == IF objs[src].class = "Key"
                THEN Key_move_assign(objs[dst], objs[src], dst = src)
                ELSE Filename_move_assign(objs[dst], objs[src], dst = src)
       IN  objs' = [objs EXCEPT ![src] = r.other, ![dst] = r.this]
    /\ ret' = [op |-> "move_assign", arg |-> <<dst, src>>, res |-> Ok("void")]
    /\ UNCHANGED call
    /\ StringsUnchanged

\* h goes out of scope
StringDestroy(h) ==
    /\ objs[h].alive
    /\ call' = IF objs[h].class = "Key" THEN Key_dealloc(objs[h], call)
               ELSE Filename_dealloc(objs[h], call)
    /\ objs' = [objs EXCEPT ![h] = NoObject]
    /\ ret' = [op |-> "dtor", arg |-> <<h>>, res |-> Ok("void")]
    /\ StringsUnchanged

StringsNext ==
    \/ \E h \in Handles : StringNew(h)
    \/ \E h \in Handles : StringSet(h)
    \/ \E dst \in Handles, src \in Handles : StringMoveConstruct(dst, src)
    \/ \E dst \in Handles, src \in Handles : StringMoveAssign(dst, src)
    \/ \E h \in Handles : StringDestroy(h)

SpecStrings == InitStrings /\ [][StringsNext]_vars

InStrings == "handed" \in DOMAIN call

\* the live Keys and Filenames that hold the string s
Owners(s) == {h \in Handles : objs[h].alive /\ objs[h].id_ptr = s}

\* C36: a string handed to a Key or a Filename is never freed twice, and it
\* is held by exactly one live object until it is freed and by none
\* afterwards: when its last holder is gone it has been freed once.
C36_FreeOnce ==
    InStrings =>
        \A s \in 1..MaxStrings :
            /\ call.frees[s] <= 1
            /\ s <= call.handed => (Cardinality(Owners(s)) = 1 - call.frees[s])

(* --------------- operator=(Kvs&&), statement by statement -------------- *)

\* the two Kvs objects that are assigned to each other
Assigned == {"kvs_a", "kvs_b"}

\* the first instance opened into kvs_a, the second into kvs_b, and the flag
\* of the second as set_flush_on_exit left it
AssignObjects(flag) ==
    LET a == Kvs_open(TwoInstancesDir, TestInstance, "Required", "Required", TestDir,
                      <<0, 0, 0, 0>>).result.value
        b == Kvs_open(TwoInstancesDir, instance_b, "Required", "Required", TestDir,
                      <<0, 0, 0, 0>>).result.value
    IN  [h \in Handles |->
            CASE h = "kvs_a" -> KvsObject_of(a)
              [] h = "kvs_b" -> [KvsObject_of(b) EXCEPT !.flush_on_exit = flag]
              [] OTHER       -> NoObject]

\* call.before keeps the objects as they were; kvs_mutex is the owner of the
\* mutex of each object
InitAssign ==
    /\ files = TwoInstancesDir
    /\ envSteps = 0
    /\ \E flag \in BOOLEAN :
          /\ objs = AssignObjects(flag)
          /\ call = [made |-> FALSE, before |-> AssignObjects(flag)]
    /\ result = NoResult
    /\ reads = <<>>
    /\ ret = NoRet
    /\ pc = [t \in Threads |-> Idle]
    /\ kvs_mutex = [h \in Assigned |-> NoThread]
    /\ builder = NoBuilder

AssignUnchanged == UNCHANGED <<files, envSteps, call, result, reads, builder>>

At(t, at) == pc[t].op = "operator=" /\ pc[t].at = at

Goto(t, at) == pc' = [pc EXCEPT ![t].at = at]

\* thread t calls dst = std::move(src); if (this != &other)
BeginAssign(t, dst, src) ==
    /\ pc[t].op = "idle"
    /\ dst # src
    /\ pc' = [pc EXCEPT ![t] = [op |-> "operator=", arg |-> <<dst, src>>,
                                at |-> "clear"]]
    /\ UNCHANGED <<objs, kvs_mutex, ret>>
    /\ AssignUnchanged

\* { lock_guard lock_this(kvs_mutex); kvs.clear(); default_values.clear(); }
ClearThis(t) ==
    /\ At(t, "clear")
    /\ kvs_mutex[pc[t].arg[1]] = NoThread
    /\ objs' = [objs EXCEPT ![pc[t].arg[1]].kvs = EmptyMap,
                            ![pc[t].arg[1]].default_values = EmptyMap]
    /\ Goto(t, "prefix")
    /\ UNCHANGED <<kvs_mutex, ret>>
    /\ AssignUnchanged

\* filename_prefix = std::move(other.filename_prefix);
MovePrefix(t) ==
    /\ At(t, "prefix")
    /\ objs' = [objs EXCEPT
                  ![pc[t].arg[1]].filename_prefix = objs[pc[t].arg[2]].filename_prefix,
                  ![pc[t].arg[2]].filename_prefix = MovedFromString]
    /\ Goto(t, "flag")
    /\ UNCHANGED <<kvs_mutex, ret>>
    /\ AssignUnchanged

\* flush_on_exit.store(other.flush_on_exit.load(relaxed), relaxed);
StoreFlag(t) ==
    /\ At(t, "flag")
    /\ objs' = [objs EXCEPT
                  ![pc[t].arg[1]].flush_on_exit = objs[pc[t].arg[2]].flush_on_exit]
    /\ Goto(t, "lock_other")
    /\ UNCHANGED <<kvs_mutex, ret>>
    /\ AssignUnchanged

\* std::lock_guard<std::mutex> lock_other(other.kvs_mutex);
LockOther(t) ==
    /\ At(t, "lock_other")
    /\ kvs_mutex[pc[t].arg[2]] = NoThread
    /\ kvs_mutex' = [kvs_mutex EXCEPT ![pc[t].arg[2]] = t]
    /\ Goto(t, "lock_this")
    /\ UNCHANGED <<objs, ret>>
    /\ AssignUnchanged

\* std::lock_guard<std::mutex> lock_this(kvs_mutex); kvs = std::move(other.kvs);
\* default_values = std::move(other.default_values); } return *this;
LockThisAndMove(t) ==
    /\ At(t, "lock_this")
    /\ kvs_mutex[pc[t].arg[1]] = NoThread
    /\ objs' = [objs EXCEPT
                  ![pc[t].arg[1]].kvs = objs[pc[t].arg[2]].kvs,
                  ![pc[t].arg[1]].default_values = objs[pc[t].arg[2]].default_values,
                  ![pc[t].arg[2]].kvs = MovedFromMap,
                  ![pc[t].arg[2]].default_values = MovedFromMap]
    /\ kvs_mutex' = [kvs_mutex EXCEPT ![pc[t].arg[2]] = NoThread]
    /\ pc' = [pc EXCEPT ![t] = [op |-> "done", arg |-> pc[t].arg]]
    /\ UNCHANGED ret
    /\ AssignUnchanged

\* an observer: { lock_guard lock(h.kvs_mutex); reads the maps, the prefix and
\* the flag of h; }
Observe(h) ==
    /\ kvs_mutex[h] = NoThread
    /\ ret' = [op |-> "observe", arg |-> <<h>>, res |-> Ok(objs[h])]
    /\ UNCHANGED <<objs, kvs_mutex, pc>>
    /\ AssignUnchanged

\* the statements of operator= that thread t runs
AssignStep(t) ==
    \/ ClearThis(t)
    \/ MovePrefix(t)
    \/ StoreFlag(t)
    \/ LockOther(t)
    \/ LockThisAndMove(t)

AssignNext ==
    \/ \E t \in Threads, dst \in Assigned, src \in Assigned : BeginAssign(t, dst, src)
    \/ \E t \in Threads : AssignStep(t)
    \/ \E h \in Assigned : Observe(h)

\* a thread that can run a statement runs it at some time
SpecAssign ==
    InitAssign /\ [][AssignNext]_vars /\ \A t \in Threads : WF_vars(AssignStep(t))

\* one thread runs kvs_a = std::move(kvs_b), the other kvs_b = std::move(kvs_a)
Opposed ==
    /\ pc["t1"].op = "operator=" /\ pc["t1"].arg = <<"kvs_a", "kvs_b">>
    /\ pc["t2"].op = "operator=" /\ pc["t2"].arg = <<"kvs_b", "kvs_a">>

\* each thread holds the mutex the other one waits for
CircularWait ==
    /\ Opposed
    /\ At("t1", "lock_this") /\ kvs_mutex["kvs_b"] = "t1"
    /\ At("t2", "lock_this") /\ kvs_mutex["kvs_a"] = "t2"

\* C38: when one thread runs a = std::move(b) and another b = std::move(a),
\* both assignments complete at some time.
C38_BothComplete ==
    Opposed ~> (pc["t1"].op = "done" /\ pc["t2"].op = "done")

\* the assignment of thread t is the only one that was called
OnlyAssign(t) ==
    /\ pc[t].op \in {"operator=", "done"}
    /\ \A u \in Threads \ {t} : pc[u].op = "idle"

\* C39: an observer that locks the mutex of the target of one running
\* assignment and reads its maps, prefix and flag sees the target as it was
\* before the assignment or the source as it was, never a mixture.
C39_AssignAtomic ==
    \A t \in Threads :
        (OnlyAssign(t) /\ ret.op = "observe" /\ ret.arg[1] = pc[t].arg[1]) =>
            ret.res.value \in {call.before[pc[t].arg[1]], call.before[pc[t].arg[2]]}

====
